---- MODULE Spec2Model ----
(***************************************************************************)
(* Verification model of the burnout3 reverse-engineering tool chain:      *)
(*   tools/disasm   (label table, linear sweep, cross references,          *)
(*                   function detection, analysis cache)                   *)
(*   tools/recomp   (batch translation and dispatch table)                 *)
(*   tools/global_map (size inference for global variables)                *)
(*                                                                         *)
(* Conventions                                                             *)
(*   - Python dicts are functions whose DOMAIN is the set of present keys. *)
(*   - Optional records are sequences of length 0 (None) or 1.             *)
(*   - Confidences are the Python floats times 100 (0.95 -> 95).           *)
(*   - Label names are records [prefix, id]; name.startswith("sub_") is    *)
(*     name.prefix = "sub_".                                               *)
(***************************************************************************)
EXTENDS Integers, Naturals, Sequences, FiniteSets, TLC

VARIABLES
    \* ---- tools/disasm/labels.py : LabelManager ----
    labels,        \* LabelManager._labels : address -> Label
    names,         \* LabelManager._names  : name -> address
    lastAdd,       \* history: the last add() call, <<>> or <<[label, existing]>>
    nAdds,         \* history: number of add()/auto_name_function() calls made
    \* ---- tools/global_map/mapper.py ----
    globals_db,    \* address -> [section, inferred_size]
    gmPhase,       \* "built" (after _build_globals_from_xrefs) or "sized"
    \* ---- tools/recomp/translator.py : BatchTranslator.translate_batch_split ----
    func_list,     \* the argument: sequence of [addr, func_info]
    xbe_data,      \* the bytes of the XBE file from the raw address of .text on
    translations,  \* sequence of [addr, name, code]
    stats,         \* [total, translated, failed]
    dispatch,      \* g_recomp_table as written: sequence of [xbox_va, func]
    batchPc,       \* "idle", "loop" (translation loop), "done" (files written)
    \* ---- tools/disasm/disasm.py, cache.py : Disassembler.run with AnalysisCache ----
    xbe_file,      \* content of the input binary
    json_file,     \* the analysis JSON found by _find_analysis_json: <<>> or <<content>>
    cache_file,    \* .disasm_cache.json: <<>> or <<[version, xbe_hash, json_hash,
                   \*   text_only, storedBy]>>; storedBy is history (the storing run)
    outputs,       \* the required output files that exist in output_dir
    lastRun,       \* history: <<>> or <<[flags, hit]>> for the run that just returned
    \* ---- tools/disasm : loader.py, engine.py, xrefs.py, functions.py ----
    image,         \* BinaryImage
    instructions,  \* DisasmEngine.instructions : address -> Instruction
    xrefs,         \* XRefTracker : [from, to, kernel_calls]
    candidates,    \* FunctionDetector._candidates : address -> [confidence, method]
    functions,     \* FunctionDetector.functions : start -> Function
    phase,         \* position in Disassembler.run: "idle", "loaded", "labelled",
                   \*   "swept", "xrefs", "detected"
    \* ---- tools/disasm/engine.py : DisasmEngine, call by call ----
    engImage,      \* DisasmEngine.image
    engInsns,      \* DisasmEngine.instructions
    sortedAddrs,  \* DisasmEngine._sorted_addrs: <<>> (None) or <<list>>
    engPc,         \* "off", "idle" (between calls), "sweep" (inside linear_sweep)
    swSec,         \* linear_sweep: index of the section being swept
    swOffset,      \* linear_sweep: offset
    swSkips,       \* history: one-byte skips made by the current sweep
    swDecoded,     \* history: every instruction a sweep has decoded
    lastQuery,     \* history: <<>> or <<[start, end, result, regrown]>> for the
                   \*   get_instructions_in_range call that just returned
    engHist,       \* history: "fresh", "queried", "grown" (instructions were
                   \*   inserted after a query)
    nSweeps,       \* history: number of linear_sweep calls made
    \* ---- tools/xbe_parser/xbe_parser.py : XBEParser.parse, then load_image ----
    xpData,        \* the container: buffer length and the fields stored in it
    xpPc,          \* position in parse(): "off", "start", "magic", "header",
                   \*   "sections", "certificate", "libraries", "imports",
                   \*   "returned", "loaded", "raised"
    xpHeader,      \* XBEHeader: <<>> or <<header>>
    xpSections,    \* XBEParser._sections
    xpImports,     \* the kernel imports found
    xpError,       \* <<>> or <<name of the exception raised>>
    xpImage,       \* the BinaryImage load_image returned: <<>> or <<image>>
    \* ---- tools/func_id : identify.py run, clustering.py propagate_labels ----
    fiCalls,       \* functions: start address -> calls_to (a set of addresses)
    fiTexts,       \* start address -> keywords in the strings it references
    rw_results,    \* address -> [category, confidence, method]
    crt_results,   \* address -> [name, confidence, method]
    fiMatched,     \* history: the addresses identify_crt_functions returned
    fiLabels,      \* propagate_labels: labels
    propagated,    \* propagate_labels: propagated
    enriched,      \* identified_functions.json: address -> entry
    fiPc,          \* position in run(): "off", "new", "identified", "merged",
                   \*   "forward", "backward", "region", "flood", "after",
                   \*   "proximity", "consumers", "xdk", "strings",
                   \*   "propagated", "written"
    fiIter,        \* propagate_labels: iteration
    fiNew,         \* propagate_labels: new_labels
    fiRound,       \* _rw_region_propagation: rounds made; then the proximity
                   \*   passes made
    fiRegion,      \* _rw_region_propagation: <<>> or <<region_addrs>>
    \* ---- tools/recomp/translator.py : the block loop of translate_function ----
    lfInsns,       \* instructions of the function
    lfEnd,         \* end address of the function
    lfBlocks,      \* blocks: sequence of [start, instructions, successors]
    lfIdx,         \* index of the block lifted next
    lfFlag,        \* flag_state: <<>> (None) or <<[setter, ops, at]>>
    lfIn,          \* history: the flag_state each block was lifted with
    lfStmts,       \* lines: the labels and statements of the C text
    lfPc,          \* "off", "new", "blocks", "done"
    \* ---- tools/disasm/engine.py : DisasmEngine.recursive_descent ----
    rdInsns,       \* DisasmEngine.instructions
    rdBounds,      \* section_bounds: a set of <<start, end>>
    rdSeeds,       \* start_addresses
    rdWork,        \* worklist
    rdVisited,     \* visited_starts
    rdReach,       \* reachable
    rdAddr,        \* addr of the linear walk, NoAddr outside it
    rdPc,          \* "off", "loop" (outer loop), "walk" (linear walk), "done"
    \* ---- tools/func_id/crt_identifier.py : identify_crt_functions ----
    ciFuncs,       \* functions: sequence of [start, size, bytes], bytes being
                   \*   the bytes read at the start of the function
    ciResults,     \* results: address -> entry
    matched_names, \* matched_names: signature name -> address
    ciF,           \* index of the function being examined
    ciS,           \* index of the signature being tried
    ciPc,          \* "off", "match", "done", "raised" (KeyError)
    \* ---- tools/disasm/disasm.py, output.py, cache.py : runs that may fail while writing ----
    rrXbe,         \* content of the input binary
    rrCache,       \* .disasm_cache.json: <<>> or <<[version, xbe_hash, json_hash,
                   \*   text_only, storedBy]>>
    rrOutputs,     \* required output file -> <<>> (absent) or <<[xbe, text_only,
                   \*   whole]>>: the analysis that wrote it, and whether the
                   \*   write finished
    rrRuns,        \* runs made
    rrLast         \* history: <<>> or <<[flags, hit]>> for the run that just returned

labelVars == <<labels, names, lastAdd, nAdds>>
globalVars == <<globals_db, gmPhase>>
batchVars == <<func_list, xbe_data, translations, stats, dispatch, batchPc>>
cacheVars == <<xbe_file, json_file, cache_file, outputs, lastRun>>
detectVars == <<image, instructions, xrefs, candidates, functions, phase>>
engineVars == <<engImage, engInsns, sortedAddrs, engPc, swSec, swOffset,
                swSkips, swDecoded, lastQuery, engHist, nSweeps>>

\* the components added after the disassembly pipeline
parseVars == <<xpData, xpPc, xpHeader, xpSections, xpImports, xpError, xpImage>>
identVars == <<fiCalls, fiTexts, rw_results, crt_results, fiMatched, fiLabels,
               propagated, enriched, fiPc, fiIter, fiNew, fiRound, fiRegion>>
liftVars == <<lfInsns, lfEnd, lfBlocks, lfIdx, lfFlag, lfIn, lfStmts, lfPc>>
descentVars == <<rdInsns, rdBounds, rdSeeds, rdWork, rdVisited, rdReach, rdAddr, rdPc>>
crtVars == <<ciFuncs, ciResults, matched_names, ciF, ciS, ciPc>>
rerunVars == <<rrXbe, rrCache, rrOutputs, rrRuns, rrLast>>
lateVars == <<descentVars, crtVars, rerunVars>>
moreVars == <<engineVars, parseVars, identVars, liftVars, lateVars>>

\* the variables of the other components
notLabelVars == <<globalVars, batchVars, cacheVars, detectVars, moreVars>>
notGlobalVars == <<labelVars, batchVars, cacheVars, detectVars, moreVars>>
notBatchVars == <<labelVars, globalVars, cacheVars, detectVars, moreVars>>
notCacheVars == <<labelVars, globalVars, batchVars, detectVars, moreVars>>
\* the disassembly pipeline also writes the label table
notDetectVars == <<lastAdd, nAdds, globalVars, batchVars, cacheVars, moreVars>>
firstVars == <<labelVars, globalVars, batchVars, cacheVars, detectVars>>
notEngineVars == <<firstVars, parseVars, identVars, liftVars, lateVars>>
notParseVars == <<firstVars, engineVars, identVars, liftVars, lateVars>>
notIdentVars == <<firstVars, engineVars, parseVars, liftVars, lateVars>>
notLiftVars == <<firstVars, engineVars, parseVars, identVars, lateVars>>
earlierVars == <<firstVars, engineVars, parseVars, identVars, liftVars>>
notDescentVars == <<earlierVars, crtVars, rerunVars>>
notCrtVars == <<earlierVars, descentVars, rerunVars>>
notRerunVars == <<earlierVars, descentVars, crtVars>>

vars == <<labels, names, lastAdd, nAdds, globals_db, gmPhase,
          func_list, xbe_data, translations, stats, dispatch, batchPc,
          xbe_file, json_file, cache_file, outputs, lastRun,
          image, instructions, xrefs, candidates, functions, phase, moreVars>>

\* ------------------------------------------------------------------------
\* Generic helpers for dict-like functions
\* ------------------------------------------------------------------------
EmptyDict == [x \in {} |-> 0]

Put(f, k, v) == [x \in (DOMAIN f) \cup {k} |-> IF x = k THEN v ELSE f[x]]

Remove(f, k) == [x \in (DOMAIN f) \ {k} |-> f[x]]

\* ------------------------------------------------------------------------
\* tools/disasm/labels.py
\* ------------------------------------------------------------------------
MaxLabelAddr == 2      \* label addresses are 1..MaxLabelAddr
MaxNameId == 1         \* explicit names are str_1..str_MaxNameId
MaxAdds == 3           \* number of add calls explored

LabelAddrs == 1..MaxLabelAddr

SubName(address) == [prefix |-> "sub_", id |-> address]

LabelNames == {SubName(a) : a \in LabelAddrs}
                \cup {[prefix |-> "str_", id |-> i] : i \in 1..MaxNameId}

StartsWithSub(name) == name.prefix = "sub_"

LabelTypes == {"function", "string_ref"}

LabelConfidences == {50, 100}

Label(address, name, label_type, section, confidence) ==
    [address |-> address, name |-> name, label_type |-> label_type,
     section |-> section, confidence |-> confidence]

\* The labels handed to add(): explicit names (strings, imports) at any
\* address, sub_XXXXXXXX only for the address it is generated from.
LabelInputs ==
    {l \in {Label(a, n, t, "", c) :
               a \in LabelAddrs, n \in LabelNames, t \in LabelTypes,
               c \in LabelConfidences} :
        StartsWithSub(l.name) => l.name = SubName(l.address)}

\* labels.py:60-63 with the tie-break dropped (faulty variant)
LabelReplaces_noTie(label, existing) ==
    label.confidence > existing.confidence

\* labels.py:60-63 : the condition under which add() replaces the existing label
LabelReplaces(label, existing) ==
    \/ label.confidence > existing.confidence
    \/ /\ label.confidence = existing.confidence
       /\ ~StartsWithSub(label.name)
       /\ StartsWithSub(existing.name)

\* labels.py:55-71 : LabelManager.add on the pair (labels, names)
LabelManager_add(tbl, label) ==
    IF label.address \in DOMAIN tbl.labels
       /\ ~LabelReplaces(label, tbl.labels[label.address])
    THEN tbl
    ELSE LET oldNames ==
                 IF label.address \in DOMAIN tbl.labels
                    /\ tbl.labels[label.address].name \in DOMAIN tbl.names
                 THEN Remove(tbl.names, tbl.labels[label.address].name)
                 ELSE tbl.names
         IN  [labels |-> Put(tbl.labels, label.address, label),
              names  |-> Put(oldNames, label.name, label.address)]

\* labels.py:73-75 : LabelManager.get
LabelManager_get(tbl, address) ==
    IF address \in DOMAIN tbl.labels THEN <<tbl.labels[address]>> ELSE <<>>

\* labels.py:77-82 : LabelManager.get_by_name
LabelManager_get_by_name(tbl, name) ==
    IF name \in DOMAIN tbl.names
    THEN LabelManager_get(tbl, tbl.names[name])
    ELSE <<>>

\* labels.py:100-116 : LabelManager.auto_name_function
LabelManager_auto_name_function(tbl, address, section, confidence) ==
    IF address \in DOMAIN tbl.labels
       /\ tbl.labels[address].label_type = "function"
    THEN tbl
    ELSE LabelManager_add(tbl,
            Label(address, SubName(address), "function", section, confidence))

Table == [labels |-> labels, names |-> names]

LabelsInit ==
    /\ labels = EmptyDict
    /\ names = EmptyDict
    /\ lastAdd = <<>>
    /\ nAdds = 0

\* One call add(label)
Add(label) ==
    /\ nAdds < MaxAdds
    /\ LET t == LabelManager_add(Table, label)
       IN  /\ labels' = t.labels
           /\ names' = t.names
    /\ lastAdd' = <<[label |-> label,
                     existing |-> LabelManager_get(Table, label.address)]>>
    /\ nAdds' = nAdds + 1
    /\ UNCHANGED notLabelVars

\* One call auto_name_function(address, "", confidence)
AutoNameFunction(address, confidence) ==
    /\ nAdds < MaxAdds
    /\ LET t == LabelManager_auto_name_function(Table, address, "", confidence)
       IN  /\ labels' = t.labels
           /\ names' = t.names
    /\ lastAdd' = <<>>
    /\ nAdds' = nAdds + 1
    /\ UNCHANGED notLabelVars

LabelsNext ==
    \/ \E label \in LabelInputs : Add(label)
    \/ \E a \in LabelAddrs, c \in LabelConfidences : AutoNameFunction(a, c)

LabelsIdle == LabelsInit

\* ------------------------------------------------------------------------
\* tools/global_map/mapper.py
\* ------------------------------------------------------------------------
DATA_VA_START == 3875680     \* 0x003B2360
LAST_GAP == 256              \* gap assumed for the last variable

MaxGlobalOff == 27     \* globals lie in DATA_VA_START .. DATA_VA_START+MaxGlobalOff
MaxGlobals == 3        \* at most this many globals

GlobalAddrs == {DATA_VA_START + o : o \in 0..MaxGlobalOff}

SetMin(S) == CHOOSE x \in S : \A y \in S : x <= y

RECURSIVE SortedSeq(_)
\* sorted(S) for a finite set of integers
SortedSeq(S) ==
    IF S = {} THEN <<>> ELSE <<SetMin(S)>> \o SortedSeq(S \ {SetMin(S)})

\* mapper.py:250-262 : nominal size from the gap to the next global
NominalSize(gap) ==
    IF gap <= 1 THEN 1
    ELSE IF gap <= 2 THEN 2
    ELSE IF gap <= 4 THEN 4
    ELSE IF gap <= 8 THEN (IF gap \in {5, 6, 7, 8} THEN gap ELSE 4)
    ELSE IF gap <= 16 THEN 8
    ELSE 4

\* mapper.py:264-271 : alignment check
AlignedSize(addr, size) ==
    IF size > 1 /\ addr % size # 0
    THEN IF addr % 4 = 0 THEN 4
         ELSE IF addr % 2 = 0 THEN 2
         ELSE 1
    ELSE size

\* mapper.py:233-273 : _infer_sizes
InferSizes(db) ==
    LET sorted_addrs == SortedSeq(DOMAIN db)
        gap(i) == IF i + 1 <= Len(sorted_addrs)
                  THEN sorted_addrs[i + 1] - sorted_addrs[i]
                  ELSE LAST_GAP
        sizeAt(i) == AlignedSize(sorted_addrs[i], NominalSize(gap(i)))
        idx(a) == CHOOSE i \in 1..Len(sorted_addrs) : sorted_addrs[i] = a
    IN  [a \in DOMAIN db |-> [db[a] EXCEPT !.inferred_size = sizeAt(idx(a))]]

\* mapper.py:177-230 : the entries _build_globals_from_xrefs creates for the
\* referenced .data addresses (inferred_size starts at 4)
GlobalsInit ==
    /\ \E refs \in [1..MaxGlobals -> GlobalAddrs] :
          globals_db = [a \in {refs[i] : i \in 1..MaxGlobals} |->
                           [section |-> ".data", inferred_size |-> 4]]
    /\ gmPhase = "built"

GlobalsIdle ==
    /\ globals_db = EmptyDict
    /\ gmPhase = "idle"

\* mapper.py:95 : run() phase 2, _infer_sizes(globals_db)
InferSizesStep ==
    /\ gmPhase = "built"
    /\ globals_db' = InferSizes(globals_db)
    /\ gmPhase' = "sized"
    /\ UNCHANGED notGlobalVars

GlobalsNext == InferSizesStep

\* ------------------------------------------------------------------------
\* tools/recomp : config.py, disasm.py, translator.py
\* ------------------------------------------------------------------------
\* config.py:6-22 : (name, va_start, va_size, raw_addr)
SECTIONS ==
    << <<".text",   69632,   2863616, 4096>>,
       <<"XMV",     2933248, 163124,  2871296>>,
       <<"DSOUND",  3096384, 52668,   3035136>>,
       <<"WMADEC",  3149056, 105828,  3088384>>,
       <<"XONLINE", 3254912, 124764,  3194880>>,
       <<"XNET",    3379680, 78056,   3321856>>,
       <<"D3D",     3457760, 83828,   3403776>>,
       <<"XGRPH",   3541600, 8300,    3473408>>,
       <<"XPP",     3549920, 36052,   3485696>>,
       <<".rdata",  3585984, 289684,  3522560>>,
       <<".data",   3875680, 3904988, 3813376>>,
       <<"DOLBY",   7780672, 29056,   4243456>>,
       <<"XON_RD",  7809728, 5416,    4276224>>,
       <<".data1",  7815168, 224,     4284416>> >>

TEXT_VA_START == 69632       \* 0x00011000
TEXT_RAW_ADDR == 4096        \* 0x00001000, raw_addr of .text
NoOffset == -1               \* va_to_file_offset returning None

MaxFuncs == 2        \* functions in a batch
MaxFuncOff == 2      \* function starts are TEXT_VA_START-1 .. TEXT_VA_START+MaxFuncOff
MaxFuncSize == 1     \* recorded function sizes are 0..MaxFuncSize
MaxXbeText == 2      \* bytes of .text present in the file

\* config.py:34-39 : va_to_file_offset
va_to_file_offset(va) ==
    LET hits == {i \in 1..Len(SECTIONS) :
                    SECTIONS[i][2] <= va /\ va < SECTIONS[i][2] + SECTIONS[i][3]}
    IN  IF hits = {} THEN NoOffset
        ELSE LET sec == SECTIONS[SetMin(hits)] IN va - sec[2] + sec[4]

\* len(self.xbe_data)
XbeLen(data) == TEXT_RAW_ADDR + Len(data)

\* translator.py:42-50 : _read_func_bytes; <<>> stands for None and for b""
\* (the caller tests "not raw_bytes")
read_func_bytes(data, start_va, end_va) ==
    LET offset == va_to_file_offset(start_va)
        size == end_va - start_va
    IN  IF offset = NoOffset THEN <<>>
        ELSE IF offset + size > XbeLen(data) THEN <<>>
        ELSE [i \in 1..size |-> data[offset - TEXT_RAW_ADDR + i]]

\* The x86 decoder on the byte values that occur: 0xC3 is "ret" (1 byte),
\* 0xE8 is "call rel32" (5 bytes); decoding stops at the first instruction
\* that is not complete.
InsnSize(byte) == IF byte = 195 THEN 1 ELSE 5

InsnMnemonic(byte) == IF byte = 195 THEN "ret" ELSE "call"

RECURSIVE Disasm(_, _, _)
Disasm(raw, i, va) ==
    IF i > Len(raw) \/ i + InsnSize(raw[i]) - 1 > Len(raw) THEN <<>>
    ELSE <<[address |-> va, size |-> InsnSize(raw[i]),
            mnemonic |-> InsnMnemonic(raw[i])]>>
         \o Disasm(raw, i + InsnSize(raw[i]), va + InsnSize(raw[i]))

\* disasm.py:147-188 : Disassembler.disassemble_function
disassemble_function(raw_bytes, start_va, end_va) ==
    LET size == end_va - start_va
    IN  IF size <= 0 \/ size > Len(raw_bytes) THEN <<>>
        ELSE Disasm(SubSeq(raw_bytes, 1, size), 1, start_va)

\* disasm.py:190-262 : build_basic_blocks, as the sorted list of the leaders
\* that have an instruction (one block per such leader)
build_basic_blocks(insns, func_start, func_end) ==
    IF insns = <<>> THEN <<>>
    ELSE LET leaders == {func_start} \cup
                 {insns[i].address + insns[i].size :
                     i \in {j \in 1..Len(insns) :
                               insns[j].mnemonic = "call"}}
             addrs == {insns[i].address : i \in 1..Len(insns)}
         IN  SortedSeq(leaders \cap addrs)

\* an Optional[str] result is a sequence of length 0 (None) or 1
None == <<>>

FuncName(addr, func_info) == func_info.name

\* translator.py:69-311 : FunctionTranslator.translate_function; the C text
\* is abstracted to [kind |-> "code", name]
translate_function(data, func_addr, func_info) ==
    LET start == func_addr
        end == IF func_info.end = 0 THEN start + func_info.size ELSE func_info.end
        raw_bytes == read_func_bytes(data, start, end)
        insns == disassemble_function(raw_bytes, start, end)
        blocks == build_basic_blocks(insns, start, end)
    IN  IF end <= start THEN None
        ELSE IF raw_bytes = <<>> THEN None
        ELSE IF insns = <<>> THEN None
        ELSE IF blocks = <<>> THEN None
        ELSE <<[kind |-> "code", name |-> FuncName(func_addr, func_info)]>>

\* translator.py:603-608 with the failure counter left alone (faulty variant)
StatsAfter_noFailCount(st, code) ==
    IF code # None
    THEN [st EXCEPT !.translated = @ + 1]
    ELSE st

\* translator.py:599-608 : the counters after one function
StatsAfter(st, code) ==
    IF code # None
    THEN [st EXCEPT !.translated = @ + 1]
    ELSE [st EXCEPT !.failed = @ + 1]

\* translator.py:599-608 : the entry appended to translations
TranslationEntry(addr, name, code) ==
    IF code # None
    THEN [addr |-> addr, name |-> name, code |-> code[1]]
    ELSE [addr |-> addr, name |-> name, code |-> [kind |-> "stub", name |-> name]]

\* translator.py:697-698 : the rows of g_recomp_table
DispatchRows(trs) ==
    [i \in 1..Len(trs) |-> [xbox_va |-> trs[i].addr, func |-> trs[i].name]]

\* the null function pointer
NULL == [prefix |-> "NULL", id |-> 0]

RECURSIVE BinarySearch(_, _, _, _)
\* translator.py:709-718 : the loop of recomp_lookup (table rows are 0-based in C)
BinarySearch(table, xbox_va, lo, hi) ==
    IF ~(lo < hi) THEN NULL
    ELSE LET mid == lo + (hi - lo) \div 2
         IN  IF table[mid + 1].xbox_va < xbox_va
             THEN BinarySearch(table, xbox_va, mid + 1, hi)
             ELSE IF table[mid + 1].xbox_va > xbox_va
             THEN BinarySearch(table, xbox_va, lo, mid)
             ELSE table[mid + 1].func

\* translator.py:706-720 : recomp_lookup
recomp_lookup(table, xbox_va) == BinarySearch(table, xbox_va, 0, Len(table))

FuncAddrs == (TEXT_VA_START - 1)..(TEXT_VA_START + MaxFuncOff)

\* func_info dicts: "end" 0 stands for a missing key, "size" is end - start
FuncInfos(addr) ==
    {[name |-> SubName(addr), end |-> 0, size |-> 0]}
    \cup {[name |-> SubName(addr), end |-> addr + k, size |-> k] :
             k \in 0..MaxFuncSize}

FuncEntries ==
    UNION {{[addr |-> a, func_info |-> fi] : fi \in FuncInfos(a)} : a \in FuncAddrs}

XbeBytes == {195, 232}

BatchInit ==
    /\ \E n \in 1..MaxFuncs : func_list \in [1..n -> FuncEntries]
    /\ \E n \in 0..MaxXbeText : xbe_data \in [1..n -> XbeBytes]
    /\ translations = <<>>
    /\ stats = [total |-> Len(func_list), translated |-> 0, failed |-> 0]
    /\ dispatch = <<>>
    /\ batchPc = "loop"

BatchIdle ==
    /\ func_list = <<>>
    /\ xbe_data = <<>>
    /\ translations = <<>>
    /\ stats = [total |-> 0, translated |-> 0, failed |-> 0]
    /\ dispatch = <<>>
    /\ batchPc = "idle"

\* translator.py:592-608 : one iteration of the translation loop
TranslateOne ==
    /\ batchPc = "loop"
    /\ Len(translations) < Len(func_list)
    /\ LET e == func_list[Len(translations) + 1]
           name == FuncName(e.addr, e.func_info)
           code == translate_function(xbe_data, e.addr, e.func_info)
       IN  /\ translations' = Append(translations, TranslationEntry(e.addr, name, code))
           /\ stats' = StatsAfter(stats, code)
    /\ UNCHANGED <<func_list, xbe_data, dispatch, batchPc>>
    /\ UNCHANGED notBatchVars

\* translator.py:610-669 : header, chunks and dispatch table are written
WriteOutputs ==
    /\ batchPc = "loop"
    /\ Len(translations) = Len(func_list)
    /\ dispatch' = DispatchRows(translations)
    /\ batchPc' = "done"
    /\ UNCHANGED <<func_list, xbe_data, translations, stats>>
    /\ UNCHANGED notBatchVars

BatchNext == TranslateOne \/ WriteOutputs

\* ------------------------------------------------------------------------
\* tools/disasm : cache.py, disasm.py (Disassembler.run)
\* ------------------------------------------------------------------------
CACHE_VERSION == 1

MaxContent == 1      \* file contents are 0..MaxContent

Contents == 0..MaxContent

\* versions a cache file found on disk can carry (an older build wrote 0)
CacheVersions == {0, CACHE_VERSION}

\* cache.py:87-90
required_files ==
    {"summary.json", "functions.json", "xrefs.json", "strings.json", "labels.json"}

\* constructor arguments of Disassembler (disasm.py:33-46)
RunFlags ==
    [text_only : BOOLEAN, stats_only : BOOLEAN, verbose : BOOLEAN, force : BOOLEAN]

\* cache.py:50-59 : _hash_file; SHA-256 is taken to be collision free
hash_file(content) == <<"sha256", content>>

\* cache.py:32-48 : _load_cache on a fresh AnalysisCache
load_cache(file) ==
    IF file = <<>> THEN <<>>
    ELSE IF file[1].version # CACHE_VERSION THEN <<>>
    ELSE file

\* cache.py:61-95 with the check of the text_only flag dropped (faulty variant)
is_valid_noFlag(file, xbe, json, text_only, outs) ==
    LET cache == load_cache(file)
    IN  IF cache = <<>> THEN FALSE
        ELSE IF cache[1].xbe_hash # hash_file(xbe) THEN FALSE
        ELSE IF cache[1].json_hash # hash_file(json) THEN FALSE
        ELSE required_files \subseteq outs

\* cache.py:61-95 : AnalysisCache.is_valid
is_valid(file, xbe, json, text_only, outs) ==
    LET cache == load_cache(file)
    IN  IF cache = <<>> THEN FALSE
        ELSE IF cache[1].xbe_hash # hash_file(xbe) THEN FALSE
        ELSE IF cache[1].json_hash # hash_file(json) THEN FALSE
        ELSE IF cache[1].text_only # text_only THEN FALSE
        ELSE required_files \subseteq outs

\* cache.py:97-116 : AnalysisCache.save; storedBy records the storing run
cache_save(xbe, json, flags) ==
    <<[version |-> CACHE_VERSION,
       xbe_hash |-> hash_file(xbe),
       json_hash |-> hash_file(json),
       text_only |-> flags.text_only,
       storedBy |-> [xbe |-> xbe, json |-> json, flags |-> flags]]>>

\* disasm.py:66-69 : the condition of the early "Cache hit" return
CacheHit(flags) ==
    /\ ~flags.force
    /\ json_file # <<>>
    /\ is_valid(cache_file, xbe_file, json_file[1], flags.text_only, outputs)

\* The cache files an earlier run can have left in output_dir: written for
\* the present inputs by this build or by one with another schema version.
CacheFilesOnDisk ==
    {<<>>} \cup
    {<<[version |-> v, xbe_hash |-> hash_file(x), json_hash |-> hash_file(j),
        text_only |-> f.text_only,
        storedBy |-> [xbe |-> x, json |-> j, flags |-> f]]>> :
        v \in CacheVersions, x \in {xbe_file}, j \in {json_file[1]},
        f \in {g \in RunFlags : ~g.stats_only /\ ~g.verbose /\ ~g.force}}

CacheInit ==
    /\ xbe_file \in Contents
    /\ json_file \in {<<c>> : c \in Contents}
    /\ cache_file \in CacheFilesOnDisk
    /\ outputs = IF cache_file = <<>> THEN {} ELSE required_files
    /\ lastRun = <<>>

CacheIdle ==
    /\ xbe_file = 0
    /\ json_file = <<>>
    /\ cache_file = <<>>
    /\ outputs = {}
    /\ lastRun = <<>>

\* disasm.py:64-75 : run() returning early on a cache hit
RunCacheHit(flags) ==
    /\ CacheHit(flags)
    /\ lastRun' = <<[flags |-> flags, hit |-> TRUE]>>
    /\ UNCHANGED <<xbe_file, json_file, cache_file, outputs>>
    /\ UNCHANGED notCacheVars

\* disasm.py:77-199 : run() analysing, then writing outputs and cache
RunAnalysis(flags) ==
    /\ ~CacheHit(flags)
    /\ outputs' = IF ~flags.stats_only THEN required_files ELSE outputs
    /\ cache_file' = IF ~flags.stats_only /\ json_file # <<>>
                     THEN cache_save(xbe_file, json_file[1], flags)
                     ELSE cache_file
    /\ lastRun' = <<[flags |-> flags, hit |-> FALSE]>>
    /\ UNCHANGED <<xbe_file, json_file>>
    /\ UNCHANGED notCacheVars

\* the user replaces the input binary
ModifyXbe(c) ==
    /\ c # xbe_file
    /\ xbe_file' = c
    /\ lastRun' = <<>>
    /\ UNCHANGED <<json_file, cache_file, outputs>>
    /\ UNCHANGED notCacheVars

\* the parser rewrites the analysis JSON, or the file is removed
ModifyJson(j) ==
    /\ j # json_file
    /\ json_file' = j
    /\ lastRun' = <<>>
    /\ UNCHANGED <<xbe_file, cache_file, outputs>>
    /\ UNCHANGED notCacheVars

\* an output file is deleted from output_dir
RemoveOutput(f) ==
    /\ f \in outputs
    /\ outputs' = outputs \ {f}
    /\ lastRun' = <<>>
    /\ UNCHANGED <<xbe_file, json_file, cache_file>>
    /\ UNCHANGED notCacheVars

\* cache.py:125-129 : AnalysisCache.invalidate
Invalidate ==
    /\ cache_file # <<>>
    /\ cache_file' = <<>>
    /\ lastRun' = <<>>
    /\ UNCHANGED <<xbe_file, json_file, outputs>>
    /\ UNCHANGED notCacheVars

CacheNext ==
    \/ \E flags \in RunFlags : RunCacheHit(flags)
    \/ \E flags \in RunFlags : RunAnalysis(flags)
    \/ \E c \in Contents : ModifyXbe(c)
    \/ \E j \in {<<>>} \cup {<<c>> : c \in Contents} : ModifyJson(j)
    \/ \E f \in required_files : RemoveOutput(f)
    \/ Invalidate

\* ------------------------------------------------------------------------
\* tools/disasm : loader.py (BinaryImage)
\* ------------------------------------------------------------------------
NoAddr == -1                 \* None of an Optional[int]

BASE_ADDRESS == 65536        \* 0x00010000, base_address of the image
IMAGE_SIZE == 8192           \* image_size
THUNK_VA == 65792            \* 0x00010100, kernel_thunk_addr and .rdata
RDATA_SIZE == 16             \* virtual_size of .rdata
CODE_VA == 69632             \* 0x00011000, virtual_addr of .text

MaxItems == 3        \* code items (instruction encodings) in .text
MaxEntryOff == 2     \* entry_point is CODE_VA .. CODE_VA+MaxEntryOff
MaxSlack == 1        \* virtual_size - raw_size of .text is 0..MaxSlack

\* "XBEH"
XBE_MAGIC == <<88, 66, 69, 72>>

\* The byte strings .text is made of: push ebp; mov ebp, esp / ret / int3 /
\* je $+3 / call $+5 / one undecodable byte, then ret / call [THUNK_VA] /
\* mov eax, [THUNK_VA] / jmp $+2
CodeItems ==
    { <<85, 139, 236>>, <<195>>, <<204>>, <<116, 1>>, <<232, 0, 0, 0, 0>>,
      <<141, 195>>, <<255, 21, 0, 1, 1, 0>>, <<139, 5, 0, 1, 1, 0>>, <<235, 0>> }

RECURSIVE Flatten(_)
Flatten(ss) == IF ss = <<>> THEN <<>> ELSE Head(ss) \o Flatten(Tail(ss))

\* loader.py:15-25 : SectionInfo
SectionInfo(name, va, vsize, raw_addr, raw_size, executable) ==
    [name |-> name, virtual_addr |-> va, virtual_size |-> vsize,
     raw_addr |-> raw_addr, raw_size |-> raw_size, executable |-> executable]

\* loader.py:147-213 : the BinaryImage load_image returns for a file whose
\* .text holds the bytes "code"
BinaryImage(code, entry_point, slack) ==
    [raw_data |-> XBE_MAGIC \o code,
     base_address |-> BASE_ADDRESS,
     image_size |-> IMAGE_SIZE,
     entry_point |-> entry_point,
     kernel_thunk_addr |-> THUNK_VA,
     sections |-> << SectionInfo(".text", CODE_VA, Len(code) + slack,
                                 Len(XBE_MAGIC), Len(code), TRUE),
                     SectionInfo(".rdata", THUNK_VA, RDATA_SIZE,
                                 Len(XBE_MAGIC) + Len(code), 0, FALSE) >>,
     kernel_imports |-> << [ordinal |-> 1, name |-> "HalReturnToFirmware",
                            thunk_addr |-> THUNK_VA] >>]

\* loader.py:66-71 : get_section_at_va, <<>> for None
get_section_at_va(img, va) ==
    LET hits == {i \in 1..Len(img.sections) :
                    /\ img.sections[i].virtual_addr <= va
                    /\ va < img.sections[i].virtual_addr + img.sections[i].virtual_size}
    IN  IF hits = {} THEN <<>> ELSE <<img.sections[SetMin(hits)]>>

\* loader.py:109-111 : get_section_data
get_section_data(img, sec) ==
    SubSeq(img.raw_data, sec.raw_addr + 1, sec.raw_addr + sec.raw_size)

\* loader.py:113-115 : get_kernel_import_at_thunk, <<>> for None
get_kernel_import_at_thunk(img, thunk_addr) ==
    LET hits == {i \in 1..Len(img.kernel_imports) :
                    img.kernel_imports[i].thunk_addr = thunk_addr}
    IN  IF hits = {} THEN <<>> ELSE <<img.kernel_imports[CHOOSE i \in hits : TRUE]>>

\* loader.py:121-123 : get_code_sections
get_code_sections(img) ==
    SelectSeq(img.sections, LAMBDA sec : sec.executable /\ sec.raw_size > 0)

\* ------------------------------------------------------------------------
\* tools/disasm : engine.py (DisasmEngine)
\* ------------------------------------------------------------------------
\* config.py:59-70
CALL_MNEMONICS == {"call"}
RET_MNEMONICS == {"ret", "retn", "retf"}
JMP_MNEMONICS == {"jmp"}
COND_JMP_MNEMONICS ==
    {"jo", "jno", "jb", "jnb", "jnae", "jae", "jc", "jnc",
     "jz", "je", "jnz", "jne", "jbe", "jna", "ja", "jnbe",
     "js", "jns", "jp", "jpe", "jnp", "jpo",
     "jl", "jnge", "jge", "jnl", "jle", "jng", "jg", "jnle",
     "jcxz", "jecxz", "loop", "loope", "loopz", "loopne", "loopnz"}
NOP_MNEMONICS == {"nop"}

\* x & 0xFFFFFFFF, computed on 16-bit halves
Mask32(x) == ((x \div 65536) % 65536) * 65536 + (x % 65536)

\* sign extension of a rel8 byte
Sext8(b) == IF b >= 128 THEN b - 256 ELSE b

\* little-endian 32-bit value at data[i..i+3]
LE32(data, i) ==
    data[i] + 256 * data[i + 1] + 65536 * data[i + 2] + 16777216 * data[i + 3]

\* Capstone operands, as far as _classify_instruction reads them: the type,
\* the immediate, and for a memory operand whether it has neither base nor
\* index register (abs) and its displacement
RegOp == [type |-> "reg", imm |-> 0, abs |-> FALSE, disp |-> 0]
ImmOp(v) == [type |-> "imm", imm |-> v, abs |-> FALSE, disp |-> 0]
MemOp(abs, disp) == [type |-> "mem", imm |-> 0, abs |-> abs, disp |-> disp]

CsInsn(size, mnemonic, op_str, operands) ==
    [size |-> size, mnemonic |-> mnemonic, op_str |-> op_str, operands |-> operands]

\* length of a ModRM byte at data[i] with its SIB byte and displacement
\* (32-bit addressing); a length past the end of data means "truncated"
ModRMLen(data, i) ==
    LET mod == data[i] \div 64
        rm == data[i] % 8
    IN  IF mod = 3 THEN 1
        ELSE IF rm = 4
        THEN IF i + 1 > Len(data) THEN 2
             ELSE IF mod = 0 THEN (IF data[i + 1] % 8 = 5 THEN 6 ELSE 2)
             ELSE IF mod = 1 THEN 3
             ELSE 6
        ELSE IF mod = 0 THEN (IF rm = 5 THEN 5 ELSE 1)
        ELSE IF mod = 1 THEN 2
        ELSE 5

\* the r/m operand of the ModRM byte at data[i]
RmOp(data, i) ==
    IF data[i] \div 64 = 3 THEN RegOp
    ELSE IF data[i] \div 64 = 0 /\ data[i] % 8 = 5
    THEN MemOp(TRUE, LE32(data, i + 1))
    ELSE MemOp(FALSE, 0)

\* Capstone on the bytes from data[i] on, placed at address va: <<>> when
\* they do not decode, else one CsInsn. Covers the opcodes of CodeItems:
\* 55, 8B /r, 8D /r, C3, CC, 74 cb, EB cb, E8 cd, FF /digit.
CsDecode(data, i, va) ==
    LET op == data[i]
        avail == Len(data) - i + 1
        hasModRM == avail >= 2 /\ 1 + ModRMLen(data, i + 1) <= avail
        len == 1 + ModRMLen(data, i + 1)
        mod == data[i + 1] \div 64
        reg == (data[i + 1] \div 8) % 8
    IN  IF op = 85 THEN <<CsInsn(1, "push", "ebp", <<RegOp>>)>>
        ELSE IF op = 195 THEN <<CsInsn(1, "ret", "", <<>>)>>
        ELSE IF op = 204 THEN <<CsInsn(1, "int3", "", <<>>)>>
        ELSE IF op = 116
        THEN IF avail < 2 THEN <<>>
             ELSE <<CsInsn(2, "je", "", <<ImmOp(va + 2 + Sext8(data[i + 1]))>>)>>
        ELSE IF op = 235
        THEN IF avail < 2 THEN <<>>
             ELSE <<CsInsn(2, "jmp", "", <<ImmOp(va + 2 + Sext8(data[i + 1]))>>)>>
        ELSE IF op = 232
        THEN IF avail < 5 THEN <<>>
             ELSE <<CsInsn(5, "call", "", <<ImmOp(va + 5 + LE32(data, i + 1))>>)>>
        ELSE IF op = 139
        THEN IF ~hasModRM THEN <<>>
             ELSE <<CsInsn(len, "mov",
                           IF data[i + 1] = 236 THEN "ebp, esp" ELSE "",
                           <<RegOp, RmOp(data, i + 1)>>)>>
        ELSE IF op = 141
        THEN IF ~hasModRM \/ mod = 3 THEN <<>>
             ELSE <<CsInsn(len, "lea", "", <<RegOp, RmOp(data, i + 1)>>)>>
        ELSE IF op = 255
        THEN IF ~hasModRM \/ reg = 7 \/ (reg \in {3, 5} /\ mod = 3) THEN <<>>
             ELSE <<CsInsn(len,
                           CASE reg = 0 -> "inc" [] reg = 1 -> "dec"
                             [] reg = 2 -> "call" [] reg = 3 -> "lcall"
                             [] reg = 4 -> "jmp" [] reg = 5 -> "ljmp"
                             [] OTHER -> "push",
                           "", <<RmOp(data, i + 1)>>)>>
        ELSE <<>>

\* engine.py:119-127 : the first flat memory operand that lies in the image
FirstImageRef(img, operands) ==
    LET hits == {k \in 1..Len(operands) :
                    /\ operands[k].type = "mem"
                    /\ operands[k].abs
                    /\ img.base_address <= Mask32(operands[k].disp)
                    /\ Mask32(operands[k].disp) < img.base_address + img.image_size}
    IN  IF hits = {} THEN NoAddr ELSE Mask32(operands[SetMin(hits)].disp)

\* engine.py:88-138 : _classify_instruction
classify_instruction(img, cs, va) ==
    LET is_call == cs.mnemonic \in CALL_MNEMONICS
        is_ret == cs.mnemonic \in RET_MNEMONICS
        is_jump == cs.mnemonic \in JMP_MNEMONICS
        is_cond_jump == cs.mnemonic \in COND_JMP_MNEMONICS
        is_branch == is_jump \/ is_cond_jump
        has == cs.operands # <<>>
        op == cs.operands[1]
        flat == op.type = "mem" /\ op.abs
        branch_ref == IF has /\ (is_call \/ is_branch) /\ op.type # "imm" /\ flat
                      THEN Mask32(op.disp) ELSE NoAddr
    IN  [address |-> va, size |-> cs.size,
         mnemonic |-> cs.mnemonic, op_str |-> cs.op_str,
         is_call |-> is_call, is_ret |-> is_ret, is_jump |-> is_jump,
         is_cond_jump |-> is_cond_jump,
         is_nop |-> cs.mnemonic \in NOP_MNEMONICS,
         call_target |-> IF has /\ is_call /\ op.type = "imm"
                         THEN Mask32(op.imm) ELSE NoAddr,
         jump_target |-> IF has /\ ~is_call /\ is_branch /\ op.type = "imm"
                         THEN Mask32(op.imm) ELSE NoAddr,
         memory_ref |-> IF has /\ ~(is_call \/ is_branch)
                        THEN FirstImageRef(img, cs.operands)
                        ELSE branch_ref]

\* engine.py:19-66 : Instruction.end_address, Instruction.is_branch
end_address(insn) == insn.address + insn.size

is_branch(insn) == insn.is_jump \/ insn.is_cond_jump

RECURSIVE DecodeRun(_, _, _, _)
\* engine.py:166-170 : the instructions Capstone yields from offset on (it
\* stops at the first bytes that do not decode); offsets are 0-based
DecodeRun(img, data, va_start, offset) ==
    IF offset >= Len(data) THEN <<>>
    ELSE LET cs == CsDecode(data, offset + 1, va_start + offset)
         IN  IF cs = <<>> THEN <<>>
             ELSE <<classify_instruction(img, cs[1], va_start + offset)>>
                  \o DecodeRun(img, data, va_start, offset + cs[1].size)

RECURSIVE StoreAll(_, _)
\* self.instructions[insn.address] = insn for a run
StoreAll(insns, run) ==
    IF run = <<>> THEN insns
    ELSE StoreAll(Put(insns, run[1].address, run[1]), Tail(run))

\* engine.py:176-180 with the one-byte skip left out (faulty variant)
NextOffset_noSkip(offset, last_end_offset) ==
    IF last_end_offset > offset THEN last_end_offset ELSE offset

\* engine.py:176-180 : where the cursor goes after one decoding attempt
NextOffset(offset, last_end_offset) ==
    IF last_end_offset > offset THEN last_end_offset ELSE offset + 1

\* engine.py:160-180 : one iteration of the while loop of linear_sweep
SweepIteration(img, data, va_start, offset, insns) ==
    LET run == DecodeRun(img, data, va_start, offset)
        last_end_offset ==
            IF run = <<>> THEN offset
            ELSE end_address(run[Len(run)]) - va_start
    IN  [offset |-> NextOffset(offset, last_end_offset),
         insns |-> StoreAll(insns, run),
         run |-> run]

RECURSIVE SweepFrom(_, _, _, _, _)
\* engine.py:160-182 : the while loop of linear_sweep
SweepFrom(img, data, va_start, offset, insns) ==
    IF offset >= Len(data) THEN insns
    ELSE LET it == SweepIteration(img, data, va_start, offset, insns)
         IN  SweepFrom(img, data, va_start, it.offset, it.insns)

\* engine.py:140-191 : linear_sweep of one section
linear_sweep(img, section, insns) ==
    SweepFrom(img, get_section_data(img, section), section.virtual_addr, 0, insns)

RECURSIVE SweepSections(_, _, _)
\* disasm.py:115-125 : linear_sweep over the target sections
SweepSections(img, sections, insns) ==
    IF sections = <<>> THEN insns
    ELSE SweepSections(img, Tail(sections), linear_sweep(img, sections[1], insns))

\* engine.py:252-254 : get_instruction, <<>> for None
get_instruction(insns, address) ==
    IF address \in DOMAIN insns THEN <<insns[address]>> ELSE <<>>

\* engine.py:261-268 : get_instructions_in_range, sorted by address
get_instructions_in_range(insns, start, end) ==
    LET addrs == SortedSeq({a \in DOMAIN insns : start <= a /\ a < end})
    IN  [k \in 1..Len(addrs) |-> insns[addrs[k]]]

\* engine.py:273-279 : get_call_targets
get_call_targets(insns) ==
    {insns[a].call_target : a \in {b \in DOMAIN insns : insns[b].call_target # NoAddr}}

\* ------------------------------------------------------------------------
\* tools/disasm : xrefs.py
\* ------------------------------------------------------------------------
\* xrefs.py:24-41 : XRef
XRef(from_addr, to_addr, xref_type, kernel_name) ==
    [from_addr |-> from_addr, to_addr |-> to_addr,
     xref_type |-> xref_type, kernel_name |-> kernel_name]

\* xrefs.py:49-55 : XRefTracker.__init__
EmptyTracker == [from |-> EmptyDict, to |-> EmptyDict, kernel_calls |-> EmptyDict]

\* d.setdefault(k, []).append(v)
AppendAt(dict, k, v) ==
    Put(dict, k, IF k \in DOMAIN dict THEN Append(dict[k], v) ELSE <<v>>)

\* xrefs.py:57-60 : XRefTracker.add
tracker_add(t, xref) ==
    [t EXCEPT !.from = AppendAt(t.from, xref.from_addr, xref),
              !.to = AppendAt(t.to, xref.to_addr, xref)]

\* xrefs.py:138-170 : a call or jump through memory that hits a kernel thunk
KernelRef(img, insn) ==
    /\ insn.memory_ref # NoAddr
    /\ insn.is_call \/ insn.is_jump \/ insn.is_cond_jump
    /\ get_kernel_import_at_thunk(img, insn.memory_ref) # <<>>

\* xrefs.py:128-194 : the cross-references of one instruction, in the order
\* in which the loop body adds them
XRefsOf(img, insn) ==
    LET ki == get_kernel_import_at_thunk(img, insn.memory_ref)
    IN  (IF insn.is_call /\ insn.call_target # NoAddr
         THEN <<XRef(insn.address, insn.call_target, "call", "")>> ELSE <<>>)
        \o
        (IF insn.is_call /\ insn.memory_ref # NoAddr
         THEN IF ki # <<>>
              THEN <<XRef(insn.address, insn.memory_ref, "kernel_call", ki[1].name)>>
              ELSE <<XRef(insn.address, insn.memory_ref, "call", "")>>
         ELSE <<>>)
        \o
        (IF (insn.is_jump \/ insn.is_cond_jump) /\ insn.memory_ref # NoAddr
            /\ ki # <<>>
         THEN <<XRef(insn.address, insn.memory_ref, "kernel_call", ki[1].name)>>
         ELSE <<>>)
        \o
        (IF insn.is_jump /\ insn.jump_target # NoAddr
         THEN <<XRef(insn.address, insn.jump_target, "jump", "")>> ELSE <<>>)
        \o
        (IF insn.is_cond_jump /\ insn.jump_target # NoAddr
         THEN <<XRef(insn.address, insn.jump_target, "cond_jump", "")>> ELSE <<>>)
        \o
        (IF ~(insn.is_call \/ is_branch(insn)) /\ insn.memory_ref # NoAddr
         THEN <<XRef(insn.address, insn.memory_ref, "data_read", "")>> ELSE <<>>)

RECURSIVE AddAll(_, _)
AddAll(t, xs) == IF xs = <<>> THEN t ELSE AddAll(tracker_add(t, xs[1]), Tail(xs))

RECURSIVE XRefLoop(_, _, _, _)
\* xrefs.py:128-194 : the loop over engine.instructions.values(); a sweep
\* inserts the instructions in ascending address order
XRefLoop(img, insns, addrs, t) ==
    IF addrs = <<>> THEN t
    ELSE LET insn == insns[addrs[1]]
             t1 == AddAll(t, XRefsOf(img, insn))
             t2 == IF KernelRef(img, insn)
                   THEN [t1 EXCEPT !.kernel_calls =
                            AppendAt(t1.kernel_calls, insn.memory_ref, insn.address)]
                   ELSE t1
         IN  XRefLoop(img, insns, Tail(addrs), t2)

\* xrefs.py:108-196 : build_xrefs
build_xrefs(insns, img) ==
    XRefLoop(img, insns, SortedSeq(DOMAIN insns), EmptyTracker)

\* every XRef the tracker holds (its _from index)
AllXRefs(t) ==
    UNION {{t.from[a][k] : k \in 1..Len(t.from[a])} : a \in DOMAIN t.from}

\* ------------------------------------------------------------------------
\* tools/disasm : functions.py (FunctionDetector)
\* ------------------------------------------------------------------------
\* config.py:89-101
CC_PADDING == 204            \* 0xCC
MIN_CC_RUN == 1
CONFIDENCE_KNOWN == 100
CONFIDENCE_PROLOGUE == 95
CONFIDENCE_CALL_TARGET == 90
CONFIDENCE_CC_BOUNDARY == 85
DEFAULT_SPAN == 1048576      \* 0x100000, the bound used outside any section

\* functions.py:117-121 : _add_candidate
add_candidate(cands, addr, confidence, method) ==
    IF addr \notin DOMAIN cands \/ confidence > cands[addr].confidence
    THEN Put(cands, addr, [confidence |-> confidence, method |-> method])
    ELSE cands

\* functions.py:123-130 : _pass_known_addresses
pass_known_addresses(img, cands) ==
    add_candidate(cands, img.entry_point, CONFIDENCE_KNOWN, "entry_point")

RECURSIVE PrologueScan(_, _, _, _, _)
\* functions.py:143-170 : the while loop of _pass_prologues (i is 0-based)
PrologueScan(data, va_start, insns, i, cands) ==
    IF ~(i < Len(data) - 2) THEN cands
    ELSE IF data[i + 1] = 85 /\ data[i + 2] = 139 /\ data[i + 3] = 236
    THEN PrologueScan(data, va_start, insns, i + 3,
             IF va_start + i \in DOMAIN insns
             THEN add_candidate(cands, va_start + i, CONFIDENCE_PROLOGUE, "prologue")
             ELSE cands)
    ELSE IF data[i + 1] = 85 /\ data[i + 2] = 137 /\ data[i + 3] = 229
    THEN PrologueScan(data, va_start, insns, i + 3,
             IF va_start + i \in DOMAIN insns
             THEN add_candidate(cands, va_start + i, CONFIDENCE_PROLOGUE, "prologue_alt")
             ELSE cands)
    ELSE PrologueScan(data, va_start, insns, i + 1, cands)

\* functions.py:132-170 : _pass_prologues
pass_prologues(img, insns, section, cands) ==
    PrologueScan(get_section_data(img, section), section.virtual_addr, insns, 0, cands)

RECURSIVE CCRunEnd(_, _)
\* functions.py:190-191 : the offset just past the run of 0xCC that holds i
CCRunEnd(data, i) ==
    IF i < Len(data) /\ data[i + 1] = CC_PADDING THEN CCRunEnd(data, i + 1) ELSE i

\* functions.py:198-205 : a ret instruction ending right at before_addr
FoundRet(insns, before_addr) ==
    \E check_offset \in 1..3 :
        LET insn == get_instruction(insns, before_addr - check_offset)
        IN  /\ insn # <<>>
            /\ insn[1].is_ret
            /\ end_address(insn[1]) = before_addr

RECURSIVE CCScan(_, _, _, _, _)
\* functions.py:186-216 : the while loop of _pass_cc_boundaries
CCScan(data, va_start, insns, i, cands) ==
    IF ~(i < Len(data)) THEN cands
    ELSE IF data[i + 1] = CC_PADDING
    THEN LET cc_start == i
             j == CCRunEnd(data, i)
             cc_run_length == j - cc_start
         IN  CCScan(data, va_start, insns, j,
                 IF /\ cc_run_length >= MIN_CC_RUN
                    /\ j < Len(data)
                    /\ FoundRet(insns, va_start + cc_start)
                    /\ va_start + j \in DOMAIN insns
                 THEN add_candidate(cands, va_start + j,
                                    CONFIDENCE_CC_BOUNDARY, "cc_boundary")
                 ELSE cands)
    ELSE CCScan(data, va_start, insns, i + 1, cands)

\* functions.py:172-216 : _pass_cc_boundaries
pass_cc_boundaries(img, insns, section, cands) ==
    CCScan(get_section_data(img, section), section.virtual_addr, insns, 0, cands)

RECURSIVE CallTargetLoop(_, _, _, _)
CallTargetLoop(img, insns, targets, cands) ==
    IF targets = <<>> THEN cands
    ELSE LET target == targets[1]
             section == get_section_at_va(img, target)
         IN  CallTargetLoop(img, insns, Tail(targets),
                 IF /\ target \in DOMAIN insns
                    /\ section # <<>>
                    /\ section[1].executable
                 THEN add_candidate(cands, target, CONFIDENCE_CALL_TARGET, "call_target")
                 ELSE cands)

\* functions.py:218-239 : _pass_call_targets
pass_call_targets(img, insns, cands) ==
    CallTargetLoop(img, insns, SortedSeq(get_call_targets(insns)), cands)

RECURSIVE ProloguesPerSection(_, _, _, _)
\* functions.py:98-100 : the prologue pass run over each section in turn
ProloguesPerSection(img, insns, sections, cands) ==
    IF sections = <<>> THEN cands
    ELSE ProloguesPerSection(img, insns, Tail(sections),
                             pass_prologues(img, insns, sections[1], cands))

RECURSIVE CCBoundariesPerSection(_, _, _, _)
\* functions.py:102-104 : the padding pass run over each section in turn
CCBoundariesPerSection(img, insns, sections, cands) ==
    IF sections = <<>> THEN cands
    ELSE CCBoundariesPerSection(img, insns, Tail(sections),
                                pass_cc_boundaries(img, insns, sections[1], cands))

\* functions.py:328-331 with the next function start ignored (faulty variant)
UpperBound_noNext(start, next_func, sec_end) ==
    IF sec_end # NoAddr /\ sec_end # 0 THEN sec_end ELSE start + DEFAULT_SPAN

\* functions.py:328-331 : the upper bound of the walk
UpperBound(start, next_func, sec_end) ==
    LET upper == IF sec_end # NoAddr /\ sec_end # 0 THEN sec_end
                 ELSE start + DEFAULT_SPAN
    IN  IF next_func # NoAddr /\ next_func # 0 /\ next_func < upper
        THEN next_func ELSE upper

\* functions.py:343-347 with the test against the upper bound dropped (faulty variant)
ExtendsBound_noUpper(insn, start, upper, max_addr) ==
    /\ insn.is_cond_jump
    /\ insn.jump_target # NoAddr
    /\ start <= insn.jump_target
    /\ insn.jump_target > max_addr

\* functions.py:343-347 : a conditional jump forward within bounds extends
\* the function
ExtendsBound(insn, start, upper, max_addr) ==
    /\ insn.is_cond_jump
    /\ insn.jump_target # NoAddr
    /\ start <= insn.jump_target
    /\ insn.jump_target < upper
    /\ insn.jump_target > max_addr

RECURSIVE Walk(_, _, _, _, _)
\* functions.py:333-359 : the while loop of _find_function_end
Walk(insns, start, upper, addr, max_addr) ==
    IF ~(addr < upper) THEN max_addr
    ELSE LET got == get_instruction(insns, addr)
         IN  IF got = <<>> THEN max_addr
             ELSE LET insn == got[1]
                      end == end_address(insn)
                      m1 == IF end > max_addr THEN end ELSE max_addr
                      m2 == IF ExtendsBound(insn, start, upper, m1)
                            THEN insn.jump_target ELSE m1
                  IN  IF (insn.is_ret \/ (insn.is_jump /\ ~insn.is_cond_jump))
                         /\ addr + insn.size >= m2
                      THEN m2
                      ELSE Walk(insns, start, upper, end, m2)

\* functions.py:317-359 : _find_function_end
find_function_end(insns, start, next_func, sec_end) ==
    Walk(insns, start, UpperBound(start, next_func, sec_end), start, start)

\* functions.py:22-38 : Function
Function(start, end, name, section, confidence, method, num_insns, has_prologue) ==
    [start |-> start, end |-> end, name |-> name, section |-> section,
     confidence |-> confidence, detection_method |-> method,
     calls_to |-> <<>>, called_by |-> <<>>,
     num_instructions |-> num_insns, has_prologue |-> has_prologue]

RECURSIVE BuildLoop(_, _, _, _, _, _)
\* functions.py:261-315 : the loop of _build_functions; acc holds the function
\* table and the label table
BuildLoop(img, insns, cands, sorted_starts, idx, acc) ==
    IF idx > Len(sorted_starts) THEN acc
    ELSE LET start_addr == sorted_starts[idx]
             section == get_section_at_va(img, start_addr)
             sec_name == IF section # <<>> THEN section[1].name ELSE ""
             next_func == IF idx + 1 <= Len(sorted_starts)
                          THEN sorted_starts[idx + 1] ELSE NoAddr
             sec_end == IF section # <<>>
                        THEN section[1].virtual_addr + section[1].virtual_size
                        ELSE NoAddr
             end_addr == find_function_end(insns, start_addr, next_func, sec_end)
             in_range == get_instructions_in_range(insns, start_addr, end_addr)
             first_insn == get_instruction(insns, start_addr)
             has_prologue == /\ first_insn # <<>>
                             /\ first_insn[1].mnemonic = "push"
                             /\ first_insn[1].op_str = "ebp"
             label == LabelManager_get(acc.table, start_addr)
             name == IF label # <<>> THEN label[1].name ELSE SubName(start_addr)
             table == IF label # <<>> THEN acc.table
                      ELSE LabelManager_auto_name_function(
                               acc.table, start_addr, sec_name,
                               cands[start_addr].confidence)
         IN  IF Len(in_range) = 0
             THEN BuildLoop(img, insns, cands, sorted_starts, idx + 1, acc)
             ELSE BuildLoop(img, insns, cands, sorted_starts, idx + 1,
                      [functions |->
                           Put(acc.functions, start_addr,
                               Function(start_addr, end_addr, name, sec_name,
                                        cands[start_addr].confidence,
                                        cands[start_addr].method,
                                        Len(in_range), has_prologue)),
                       table |-> table])

\* functions.py:241-315 : _build_functions
build_functions(img, insns, cands, table) ==
    BuildLoop(img, insns, cands, SortedSeq(DOMAIN cands), 1,
              [functions |-> EmptyDict, table |-> table])

\* functions.py:366-372 : the direct call targets inside a function
Callees(insns, func) ==
    LET in_range == get_instructions_in_range(insns, func.start, func.end)
    IN  {in_range[k].call_target :
            k \in {j \in 1..Len(in_range) : in_range[j].call_target # NoAddr}}

\* functions.py:361-381 : _build_call_graph
build_call_graph(insns, funcs) ==
    [s \in DOMAIN funcs |->
        [funcs[s] EXCEPT
            !.calls_to = SortedSeq(Callees(insns, funcs[s])),
            !.called_by = SortedSeq({c \in DOMAIN funcs : s \in Callees(insns, funcs[c])})]]

\* functions.py:82-115 : detect_all, giving candidates, functions and labels
detect_all(img, insns, sections, table) ==
    LET c1 == pass_known_addresses(img, EmptyDict)
        c2 == ProloguesPerSection(img, insns, sections, c1)
        c3 == CCBoundariesPerSection(img, insns, sections, c2)
        c4 == pass_call_targets(img, insns, c3)
        built == build_functions(img, insns, c4, table)
    IN  [candidates |-> c4,
         functions |-> build_call_graph(insns, built.functions),
         table |-> built.table]

\* ------------------------------------------------------------------------
\* tools/disasm : disasm.py (Disassembler.run, phases 1 to 5)
\* ------------------------------------------------------------------------
\* labels.py:159-167 : populate_entry_point
populate_entry_point(tbl, img) ==
    LabelManager_add(tbl,
        Label(img.entry_point, [prefix |-> "xbe_entry_point", id |-> 0],
              "entry_point", ".text", 100))

RECURSIVE populate_kernel_labels(_, _)
\* labels.py:139-156 : populate_kernel_labels over a list of imports; the
\* name xbox_<name> is identified by the ordinal of the import
populate_kernel_labels(tbl, imports) ==
    IF imports = <<>> THEN tbl
    ELSE populate_kernel_labels(
             LabelManager_add(tbl,
                 Label(imports[1].thunk_addr,
                       [prefix |-> "xbox_", id |-> imports[1].ordinal],
                       "kernel_import", ".rdata", 100)),
             Tail(imports))

\* disasm.py:201-210 : _get_target_sections (text_only not set)
get_target_sections(img) == get_code_sections(img)

DetectInit ==
    /\ \E n \in 1..MaxItems : \E items \in [1..n -> CodeItems] :
       \E off \in 0..MaxEntryOff : \E slack \in 0..MaxSlack :
          image = BinaryImage(Flatten(items), CODE_VA + off, slack)
    /\ instructions = EmptyDict
    /\ xrefs = EmptyTracker
    /\ candidates = EmptyDict
    /\ functions = EmptyDict
    /\ phase = "loaded"

DetectIdle ==
    /\ image = BinaryImage(<<>>, CODE_VA, 0)
    /\ instructions = EmptyDict
    /\ xrefs = EmptyTracker
    /\ candidates = EmptyDict
    /\ functions = EmptyDict
    /\ phase = "idle"

\* disasm.py:93-107 : phase 2; .rdata holds no file bytes, so extract_strings
\* finds no string
PopulateLabels ==
    /\ phase = "loaded"
    /\ LET t == populate_kernel_labels(populate_entry_point(Table, image),
                                       image.kernel_imports)
       IN  /\ labels' = t.labels
           /\ names' = t.names
    /\ phase' = "labelled"
    /\ UNCHANGED <<image, instructions, xrefs, candidates, functions>>
    /\ UNCHANGED notDetectVars

\* disasm.py:109-128 : phase 3
LinearSweep ==
    /\ phase = "labelled"
    /\ instructions' = SweepSections(image, get_target_sections(image), EmptyDict)
    /\ phase' = "swept"
    /\ UNCHANGED <<image, xrefs, candidates, functions, labels, names>>
    /\ UNCHANGED notDetectVars

\* disasm.py:135-138 : phase 4
BuildXrefs ==
    /\ phase = "swept"
    /\ xrefs' = build_xrefs(instructions, image)
    /\ phase' = "xrefs"
    /\ UNCHANGED <<image, instructions, candidates, functions, labels, names>>
    /\ UNCHANGED notDetectVars

\* disasm.py:145-150 : phase 5
DetectAll ==
    /\ phase = "xrefs"
    /\ LET r == detect_all(image, instructions, get_target_sections(image), Table)
       IN  /\ candidates' = r.candidates
           /\ functions' = r.functions
           /\ labels' = r.table.labels
           /\ names' = r.table.names
    /\ phase' = "detected"
    /\ UNCHANGED <<image, instructions, xrefs>>
    /\ UNCHANGED notDetectVars

DetectNext == PopulateLabels \/ LinearSweep \/ BuildXrefs \/ DetectAll

\* ------------------------------------------------------------------------
\* tools/disasm/engine.py : DisasmEngine driven call by call
\* (linear_sweep one loop iteration at a time, get_instructions_in_range)
\* ------------------------------------------------------------------------
MaxSweeps == 2
MaxSweepItems == 2
MaxSecondItems == 1

\* the second executable section of the engine's image starts here
SECOND_VA == CODE_VA + 256

\* loader.py:147-213 : a BinaryImage with two executable sections
EngineImage(codeA, codeB) ==
    [raw_data |-> XBE_MAGIC \o codeA \o codeB,
     base_address |-> BASE_ADDRESS,
     image_size |-> IMAGE_SIZE,
     entry_point |-> CODE_VA,
     kernel_thunk_addr |-> THUNK_VA,
     sections |-> << SectionInfo(".text", CODE_VA, Len(codeA),
                                 Len(XBE_MAGIC), Len(codeA), TRUE),
                     SectionInfo("XPP", SECOND_VA, Len(codeB),
                                 Len(XBE_MAGIC) + Len(codeA), Len(codeB), TRUE) >>,
     kernel_imports |-> << [ordinal |-> 1, name |-> "HalReturnToFirmware",
                            thunk_addr |-> THUNK_VA] >>]

\* engine.py:185 with the cached address list kept (faulty variant)
CacheAfterSweep_kept(cache) == cache

\* engine.py:184-185 : self._sorted_addrs = None
CacheAfterSweep(cache) == <<>>

\* engine.py:256-259 : _ensure_sorted_addrs; <<>> is None, <<list>> a list
ensure_sorted_addrs(insns, cache) ==
    IF cache = <<>> THEN <<SortedSeq(DOMAIN insns)>> ELSE cache

RECURSIVE BisectLoop(_, _, _, _)
\* bisect.bisect_left as called at engine.py:265-266 (0-based lo, hi)
BisectLoop(a, x, lo, hi) ==
    IF lo >= hi THEN lo
    ELSE LET mid == (lo + hi) \div 2
         IN  IF a[mid + 1] < x THEN BisectLoop(a, x, mid + 1, hi)
             ELSE BisectLoop(a, x, lo, mid)

bisect_left(a, x) == BisectLoop(a, x, 0, Len(a))

\* engine.py:261-268 : get_instructions_in_range over the cached address list
RangeQuery(insns, cache, start, end) ==
    LET sorted == ensure_sorted_addrs(insns, cache)[1]
        lo == bisect_left(sorted, start)
        hi == bisect_left(sorted, end)
    IN  [i \in 1..(IF hi > lo THEN hi - lo ELSE 0) |-> insns[sorted[lo + i]]]

\* the code items the engine's sections are made of: ret, a byte pair that
\* does not decode at its first byte, and a short jump
SweepItems == {<<195>>, <<141, 195>>, <<235, 0>>}

SweepCodes(n) == UNION {{Flatten(items) : items \in [1..k -> SweepItems]} : k \in 0..n}

QueryStarts == {CODE_VA, CODE_VA + 1}
QueryEnds == {CODE_VA + 2, SECOND_VA + 8}

\* before DisasmEngine(image) is constructed
EngineInit ==
    /\ engImage = EngineImage(<<>>, <<>>)
    /\ engInsns = EmptyDict
    /\ sortedAddrs = <<>>
    /\ engPc = "new"
    /\ swSec = 1
    /\ swOffset = 0
    /\ swSkips = 0
    /\ swDecoded = {}
    /\ lastQuery = <<>>
    /\ engHist = "fresh"
    /\ nSweeps = 0

\* engine.py:76-86 : DisasmEngine.__init__(image)
NewEngine(codeA, codeB) ==
    /\ engPc = "new"
    /\ engImage' = EngineImage(codeA, codeB)
    /\ engInsns' = EmptyDict
    /\ sortedAddrs' = <<>>
    /\ engPc' = "idle"
    /\ UNCHANGED <<swSec, swOffset, swSkips, swDecoded, lastQuery, engHist, nSweeps>>
    /\ UNCHANGED notEngineVars

EngineIdle ==
    /\ engImage = EngineImage(<<>>, <<>>)
    /\ engInsns = EmptyDict
    /\ sortedAddrs = <<>>
    /\ engPc = "off"
    /\ swSec = 1
    /\ swOffset = 0
    /\ swSkips = 0
    /\ swDecoded = {}
    /\ lastQuery = <<>>
    /\ engHist = "fresh"
    /\ nSweeps = 0

\* engine.py:149-158 : linear_sweep(section) up to the loop; a section
\* without file bytes returns 0 at once
StartSweep(k) ==
    /\ engPc = "idle"
    /\ nSweeps < MaxSweeps
    /\ nSweeps' = nSweeps + 1
    /\ swSec' = k
    /\ swOffset' = 0
    /\ swSkips' = 0
    /\ lastQuery' = <<>>
    /\ engPc' = IF get_section_data(engImage, engImage.sections[k]) = <<>>
                THEN "idle" ELSE "sweep"
    /\ UNCHANGED <<engImage, engInsns, sortedAddrs, swDecoded, engHist>>
    /\ UNCHANGED notEngineVars

\* the bytes of the section being swept
SweepData == get_section_data(engImage, engImage.sections[swSec])

\* engine.py:160-191 : one loop iteration; the last one also drops the
\* cached address list and returns
SweepStep ==
    /\ engPc = "sweep"
    /\ \E it \in {SweepIteration(engImage, SweepData,
                                  engImage.sections[swSec].virtual_addr,
                                  swOffset, engInsns)} :
       \E done \in {it.offset >= Len(SweepData)} :
           /\ engInsns' = it.insns
           /\ swOffset' = it.offset
           /\ swSkips' = IF it.run = <<>> THEN swSkips + 1 ELSE swSkips
           /\ swDecoded' = swDecoded \cup {it.run[i] : i \in 1..Len(it.run)}
           /\ engPc' = IF done THEN "idle" ELSE "sweep"
           /\ sortedAddrs' = IF done THEN CacheAfterSweep(sortedAddrs)
                              ELSE sortedAddrs
           /\ engHist' = IF done /\ engHist = "queried" /\ DOMAIN it.insns # DOMAIN engInsns
                         THEN "grown" ELSE engHist
    /\ UNCHANGED <<engImage, swSec, lastQuery, nSweeps>>
    /\ UNCHANGED notEngineVars

\* engine.py:261-268 : get_instructions_in_range(start, end)
Query(start, end) ==
    /\ engPc = "idle"
    /\ lastQuery' = <<[start |-> start, end |-> end,
                       result |-> RangeQuery(engInsns, sortedAddrs, start, end),
                       regrown |-> engHist = "grown"]>>
    /\ sortedAddrs' = ensure_sorted_addrs(engInsns, sortedAddrs)
    /\ engHist' = "queried"
    /\ UNCHANGED <<engImage, engInsns, engPc, swSec, swOffset, swSkips,
                   swDecoded, nSweeps>>
    /\ UNCHANGED notEngineVars

\* linear_sweep calls only
SweepNext ==
    \/ \E codeA \in SweepCodes(MaxSweepItems) \ {<<>>} :
       \E codeB \in SweepCodes(MaxSecondItems) : NewEngine(codeA, codeB)
    \/ \E k \in 1..2 : StartSweep(k)
    \/ SweepStep

EngineNext ==
    \/ \E codeA \in SweepCodes(MaxSweepItems) \ {<<>>} :
       \E codeB \in SweepCodes(MaxSecondItems) : NewEngine(codeA, codeB)
    \/ \E k \in 1..2 : StartSweep(k)
    \/ SweepStep
    \/ \E start \in QueryStarts : \E end \in QueryEnds : Query(start, end)

\* ------------------------------------------------------------------------
\* tools/xbe_parser/xbe_parser.py : XBEParser.parse, followed by
\* export_json and tools/disasm/loader.py : load_image
\* ------------------------------------------------------------------------
MaxSections == 1

\* xbe_parser.py:667 : the last header field is read at 0x0174
HEADER_END == 376
\* xbe_parser.py:704
SECTION_HEADER_SIZE == 56

\* buffer lengths, and an offset that lies beyond every one of them
XbeSizes == {256, 1024, 4096}
FarOffset == 2 * 4096
\* an image size large enough to hold both decodings of an entry field
BigImageSize == 16384 * 65536

\* 32-bit words are pairs <<high 16 bits, low 16 bits>>
\* xbe_parser.py:29-34
ENTRY_RETAIL_XOR == <<43260, 22443>>
ENTRY_DEBUG_XOR == <<38021, 40267>>
THUNK_RETAIL_XOR == <<23405, 16566>>
THUNK_DEBUG_XOR == <<61361, 61778>>

RECURSIVE Xor16(_, _)
\* the ^ operator on 16-bit halves
Xor16(a, b) ==
    IF a = 0 THEN b
    ELSE IF b = 0 THEN a
    ELSE (((a % 2) + (b % 2)) % 2) + 2 * Xor16(a \div 2, b \div 2)

\* xbe_parser.py:672 : (x ^ key) & 0xFFFFFFFF
Xor32(w, key) == <<Xor16(w[1], key[1]), Xor16(w[2], key[2])>>

U32(n) == <<n \div 65536, n % 65536>>

FitsInt(w) == w[1] < 32768

ToInt(w) == w[1] * 65536 + w[2]

\* xbe_parser.py:676 : base_address <= w < base_address + image_size
\* (base_address + image_size stays below 2^31 for every container drawn)
InImage(w, base_address, image_size) ==
    /\ FitsInt(w)
    /\ base_address <= ToInt(w)
    /\ ToInt(w) < base_address + image_size

\* xbe_parser.py:671-685 with the debug key tried first (faulty variant)
DecodeEntry_debugFirst(entry_point_raw, base_address, image_size) ==
    LET entry_retail == Xor32(entry_point_raw, ENTRY_RETAIL_XOR)
        entry_debug == Xor32(entry_point_raw, ENTRY_DEBUG_XOR)
    IN  IF InImage(entry_debug, base_address, image_size)
        THEN [entry_point |-> entry_debug, is_debug |-> TRUE]
        ELSE IF InImage(entry_retail, base_address, image_size)
        THEN [entry_point |-> entry_retail, is_debug |-> FALSE]
        ELSE [entry_point |-> entry_retail, is_debug |-> FALSE]

\* xbe_parser.py:671-685 : decode the entry point
DecodeEntry(entry_point_raw, base_address, image_size) ==
    LET entry_retail == Xor32(entry_point_raw, ENTRY_RETAIL_XOR)
        entry_debug == Xor32(entry_point_raw, ENTRY_DEBUG_XOR)
    IN  IF InImage(entry_retail, base_address, image_size)
        THEN [entry_point |-> entry_retail, is_debug |-> FALSE]
        ELSE IF InImage(entry_debug, base_address, image_size)
        THEN [entry_point |-> entry_debug, is_debug |-> TRUE]
        ELSE [entry_point |-> entry_retail, is_debug |-> FALSE]

\* xbe_parser.py:687-694 : decode the kernel thunk address
DecodeThunk(kernel_thunk_addr_raw, is_debug) ==
    IF is_debug THEN Xor32(kernel_thunk_addr_raw, THUNK_DEBUG_XOR)
    ELSE Xor32(kernel_thunk_addr_raw, THUNK_RETAIL_XOR)

\* xbe_parser.py:544-548 : struct.unpack_from of n bytes at offset succeeds
\* (a negative offset counts from the end of the buffer)
ReadOk(offset, n, buflen) ==
    IF offset >= 0 THEN offset + n <= buflen
    ELSE offset + buflen >= 0 /\ 0 - offset >= n

ReadAllOk(offset, fields, n, buflen) ==
    \A k \in fields : ReadOk(offset + k, n, buflen)

\* the offsets at which each structure is read with _read_u32 / _read_u16
HeaderReads == {260 + 4 * i : i \in 0..28}
SectionReads == {4 * i : i \in 0..8}
CertificateReads == {0, 4, 8} \cup {92 + 4 * i : i \in 0..15} \cup {156 + 4 * i : i \in 0..4}
LibraryReads == {8, 10, 12, 14}
TlsReads == {4 * i : i \in 0..5}

\* xbe_parser.py:570-582 : _va_to_file
va_to_file(va, base, secs) ==
    IF va < base + 4096 THEN va - base
    ELSE LET hits == {i \in 1..Len(secs) :
                         secs[i].virtual_addr <= va
                         /\ va < secs[i].virtual_addr + secs[i].virtual_size}
         IN  IF hits # {}
             THEN LET s == secs[SetMin(hits)] IN s.raw_addr + (va - s.virtual_addr)
             ELSE va - base

\* xbe_parser.py:786-797 : file offset of the thunk table; a thunk address of
\* 2^31 or more lies in no section and is past the end of every buffer
ThunkFileOff(h, secs) ==
    IF ~FitsInt(h.kernel_thunk_addr) THEN FarOffset
    ELSE LET va == ToInt(h.kernel_thunk_addr)
             hits == {i \in 1..Len(secs) :
                         secs[i].virtual_addr <= va
                         /\ va < secs[i].virtual_addr + secs[i].virtual_size}
         IN  IF hits # {}
             THEN LET s == secs[SetMin(hits)] IN s.raw_addr + (va - s.virtual_addr)
             ELSE va - h.base_address

\* xbe_parser.py:779-815 : _parse_kernel_imports; the table in the file holds
\* one ordinal and a zero terminator
parse_kernel_imports(h, secs, buflen) ==
    IF h.kernel_thunk_addr = <<0, 0>> THEN <<>>
    ELSE IF ThunkFileOff(h, secs) + 4 <= buflen
    THEN <<[ordinal |-> 1, name |-> "HalReturnToFirmware",
            thunk_addr |-> h.kernel_thunk_addr]>>
    ELSE <<>>

\* the section headers a container may hold
StoredSections ==
    {[virtual_addr |-> CODE_VA, virtual_size |-> 16, raw_addr |-> ra,
      raw_size |-> 16, section_name_addr |-> BASE_ADDRESS + 700,
      executable |-> TRUE] : ra \in {512, FarOffset}}

EntryRaws ==
    {Xor32(U32(CODE_VA), ENTRY_RETAIL_XOR), Xor32(U32(CODE_VA), ENTRY_DEBUG_XOR), <<0, 0>>}

ThunkRaws ==
    {Xor32(U32(BASE_ADDRESS + 768), THUNK_RETAIL_XOR),
     Xor32(U32(BASE_ADDRESS + 768), THUNK_DEBUG_XOR)}

\* the containers: buffer length and the fields stored in the header
Containers ==
    [buflen : XbeSizes,
     magic_ok : BOOLEAN,
     base_address : {BASE_ADDRESS},
     image_size : {IMAGE_SIZE, BigImageSize},
     certificate_addr : {BASE_ADDRESS + 600, BASE_ADDRESS + FarOffset},
     section_headers_addr : {BASE_ADDRESS + HEADER_END, BASE_ADDRESS + FarOffset},
     section_table : UNION {[1..n -> StoredSections] : n \in 0..MaxSections},
     entry_point_raw : EntryRaws,
     kernel_thunk_addr_raw : ThunkRaws,
     num_library_versions : {0, 1},
     library_versions_addr : {BASE_ADDRESS + 800, BASE_ADDRESS + FarOffset},
     tls_addr : {0, BASE_ADDRESS + 900, BASE_ADDRESS + FarOffset}]

ParseInit ==
    /\ xpData \in {c \in Containers :
                      c.num_library_versions = 0
                          => c.library_versions_addr = BASE_ADDRESS + 800}
    /\ xpPc = "start"
    /\ xpHeader = <<>>
    /\ xpSections = <<>>
    /\ xpImports = <<>>
    /\ xpError = <<>>
    /\ xpImage = <<>>

ParseIdle ==
    /\ xpData = <<>>
    /\ xpPc = "off"
    /\ xpHeader = <<>>
    /\ xpSections = <<>>
    /\ xpImports = <<>>
    /\ xpError = <<>>
    /\ xpImage = <<>>

\* a step of parse() that either raises or moves on
Raise(error) ==
    /\ xpPc' = "raised"
    /\ xpError' = <<error>>

\* xbe_parser.py:585-588 : the magic
ParseMagic ==
    /\ xpPc = "start"
    /\ IF xpData.buflen >= 4 /\ xpData.magic_ok
       THEN xpPc' = "magic" /\ xpError' = xpError
       ELSE Raise("ValueError")
    /\ UNCHANGED <<xpData, xpHeader, xpSections, xpImports, xpImage>>
    /\ UNCHANGED notParseVars

\* xbe_parser.py:636-696 : _parse_header
ParseHeader ==
    /\ xpPc = "magic"
    /\ IF ReadAllOk(0, HeaderReads, 4, xpData.buflen)
       THEN LET e == DecodeEntry(xpData.entry_point_raw, xpData.base_address,
                                 xpData.image_size)
            IN  /\ xpHeader' =
                     <<[base_address |-> xpData.base_address,
                        image_size |-> xpData.image_size,
                        certificate_addr |-> xpData.certificate_addr,
                        num_sections |-> Len(xpData.section_table),
                        section_headers_addr |-> xpData.section_headers_addr,
                        entry_point_raw |-> xpData.entry_point_raw,
                        tls_addr |-> xpData.tls_addr,
                        kernel_thunk_addr_raw |-> xpData.kernel_thunk_addr_raw,
                        num_library_versions |-> xpData.num_library_versions,
                        library_versions_addr |-> xpData.library_versions_addr,
                        entry_point |-> e.entry_point,
                        is_debug |-> e.is_debug,
                        kernel_thunk_addr |->
                            DecodeThunk(xpData.kernel_thunk_addr_raw, e.is_debug)]>>
                /\ xpPc' = "header"
                /\ xpError' = xpError
       ELSE Raise("struct.error") /\ xpHeader' = xpHeader
    /\ UNCHANGED <<xpData, xpSections, xpImports, xpImage>>
    /\ UNCHANGED notParseVars

\* xbe_parser.py:698-724 : _parse_sections
ParseSections ==
    /\ xpPc = "header"
    /\ LET h == xpHeader[1]
           sec_hdr_offset == h.section_headers_addr - h.base_address
           name_off(s) == s.section_name_addr - h.base_address
       IN  IF \A i \in 0..(h.num_sections - 1) :
                 ReadAllOk(sec_hdr_offset + i * SECTION_HEADER_SIZE, SectionReads, 4,
                           xpData.buflen)
           THEN /\ xpSections' =
                     [i \in 1..h.num_sections |->
                         LET s == xpData.section_table[i]
                         IN  [virtual_addr |-> s.virtual_addr,
                              virtual_size |-> s.virtual_size,
                              raw_addr |-> s.raw_addr,
                              raw_size |-> s.raw_size,
                              section_name_addr |-> s.section_name_addr,
                              executable |-> s.executable,
                              name |-> IF 0 <= name_off(s) /\ name_off(s) < xpData.buflen
                                       THEN ".text" ELSE ""]]
                /\ xpPc' = "sections"
                /\ xpError' = xpError
           ELSE Raise("struct.error") /\ xpSections' = xpSections
    /\ UNCHANGED <<xpData, xpHeader, xpImports, xpImage>>
    /\ UNCHANGED notParseVars

\* xbe_parser.py:726-755 : _parse_certificate
ParseCertificate ==
    /\ xpPc = "sections"
    /\ LET h == xpHeader[1]
       IN  IF ReadAllOk(h.certificate_addr - h.base_address, CertificateReads, 4,
                        xpData.buflen)
           THEN xpPc' = "certificate" /\ xpError' = xpError
           ELSE Raise("struct.error")
    /\ UNCHANGED <<xpData, xpHeader, xpSections, xpImports, xpImage>>
    /\ UNCHANGED notParseVars

\* xbe_parser.py:757-777 : _parse_libraries
ParseLibraries ==
    /\ xpPc = "certificate"
    /\ LET h == xpHeader[1]
           off == h.library_versions_addr - h.base_address
       IN  IF h.library_versions_addr = 0 \/ h.num_library_versions = 0
           THEN xpPc' = "libraries" /\ xpError' = xpError
           ELSE IF \A i \in 0..(h.num_library_versions - 1) :
                      ReadAllOk(off + i * 16, LibraryReads, 2, xpData.buflen)
           THEN xpPc' = "libraries" /\ xpError' = xpError
           ELSE Raise("struct.error")
    /\ UNCHANGED <<xpData, xpHeader, xpSections, xpImports, xpImage>>
    /\ UNCHANGED notParseVars

\* xbe_parser.py:779-815 : _parse_kernel_imports (never raises)
ParseKernelImports ==
    /\ xpPc = "libraries"
    /\ xpImports' = parse_kernel_imports(xpHeader[1], xpSections, xpData.buflen)
    /\ xpPc' = "imports"
    /\ UNCHANGED <<xpData, xpHeader, xpSections, xpError, xpImage>>
    /\ UNCHANGED notParseVars

\* xbe_parser.py:817-831 : _parse_tls; 606-634 : the debug strings are read
\* inside try/except, and the XBEFile is returned
ParseTls ==
    /\ xpPc = "imports"
    /\ LET h == xpHeader[1]
       IN  IF h.tls_addr = 0
           THEN xpPc' = "returned" /\ xpError' = xpError
           ELSE IF ReadAllOk(va_to_file(h.tls_addr, h.base_address, xpSections),
                             TlsReads, 4, xpData.buflen)
           THEN xpPc' = "returned" /\ xpError' = xpError
           ELSE Raise("struct.error")
    /\ UNCHANGED <<xpData, xpHeader, xpSections, xpImports, xpImage>>
    /\ UNCHANGED notParseVars

\* xbe_parser.py:1012-1065 : export_json, then loader.py:147-213 : load_image
\* on the same file and the exported JSON
LoadImage ==
    /\ xpPc = "returned"
    /\ LET h == xpHeader[1]
       IN  xpImage' =
               <<[raw_len |-> xpData.buflen,
                  base_address |-> h.base_address,
                  image_size |-> h.image_size,
                  entry_point |-> h.entry_point,
                  kernel_thunk_addr |-> h.kernel_thunk_addr,
                  sections |-> [i \in 1..Len(xpSections) |->
                                   [name |-> xpSections[i].name,
                                    virtual_addr |-> xpSections[i].virtual_addr,
                                    virtual_size |-> xpSections[i].virtual_size,
                                    raw_addr |-> xpSections[i].raw_addr,
                                    raw_size |-> xpSections[i].raw_size,
                                    executable |-> xpSections[i].executable]],
                  kernel_imports |-> xpImports]>>
    /\ xpPc' = "loaded"
    /\ UNCHANGED <<xpData, xpHeader, xpSections, xpImports, xpError>>
    /\ UNCHANGED notParseVars

ParseNext ==
    \/ ParseMagic \/ ParseHeader \/ ParseSections \/ ParseCertificate
    \/ ParseLibraries \/ ParseKernelImports \/ ParseTls \/ LoadImage

\* ------------------------------------------------------------------------
\* tools/func_id : identify.py, clustering.py, output.py
\* ------------------------------------------------------------------------
MaxChain == 21         \* longest chain of unlabeled functions in a region input
SmallFuncs == 4        \* functions of a small call-graph input are 1..SmallFuncs

\* config.py:204-214, clustering.py:89,189,199,225,266,330,369
CONFIDENCE_RW_STRING_REF == 95
CONFIDENCE_CRT_SIGNATURE == 90
CONFIDENCE_CLUSTER_CALL == 75
CONFIDENCE_CLUSTER_PROXIMITY == 65
CONFIDENCE_REGION == 70
CONFIDENCE_REGION_PROXIMITY == 60
CONFIDENCE_RW_CONSUMER == 65
CONFIDENCE_XDK_CALLER == 70
CONFIDENCE_STRING_KEYWORD == 60
PROXIMITY_GAP == 4096
REGION_GAP == 8192
MAX_CLUSTER_ITERATIONS == 10
MAJORITY_PERCENT == 67
MIN_REGION_RW == 10
REGION_ROUNDS == 20
PROXIMITY_PASSES == 20

\* config.py:220-231 : two of the RenderWare categories
RWCategories == {"rw_core", "rw_world"}

\* labels[c].startswith("rw_")
IsRW(l) == l \in RWCategories

\* clustering.py:344 reads config.XDK_SECTIONS, name -> (lo, hi, category).
\* config.py does not define the table; it is taken here as the platform
\* library sections the propagation rules describe, each a VA range with its
\* game area. The one section kept lies above every function of the inputs.
XDK_SECTIONS == {[name |-> "D3D", lo |-> 100, hi |-> 200, cat |-> "game_render"]}

\* an address inside the section
XdkTarget == (CHOOSE s \in XDK_SECTIONS : TRUE).lo

\* config.py:237-259 : GAME_SUBCATEGORIES, two categories with one keyword
\* each, in dictionary order
GAME_SUBCATEGORIES ==
    <<[cat |-> "vehicle", keywords |-> {"wheel"}],
      [cat |-> "audio", keywords |-> {"sound"}]>>

\* clustering.py:46-54 : callers[t] of the call graph built from calls_to
CallersOf(calls, a) == {c \in DOMAIN calls : a \in calls[c]}

\* clustering.py:77,104 : the callers (forward) or callees (backward) of addr
NeighbourSet(calls, addr, dir) ==
    IF dir = "forward" THEN CallersOf(calls, addr) ELSE calls[addr]

RWIn(S, lbls) == {c \in S : c \in DOMAIN lbls /\ IsRW(lbls[c])}

\* clustering.py:90 : max(rw_subcounts, key=rw_subcounts.get) over the labels
\* counted in S; of two labels with the same count the one met first wins,
\* and the set is walked in address order
BestLabel(S, lbls) ==
    LET rw == RWIn(S, lbls)
        n(l) == Cardinality({c \in rw : lbls[c] = l})
        first(l) == SetMin({c \in rw : lbls[c] = l})
        top == {l \in RWCategories : n(l) > 0 /\ \A m \in RWCategories : n(m) <= n(l)}
    IN CHOOSE l \in top : \A m \in top : first(l) <= first(m)

PropRecord(category, subcategory, confidence, method) ==
    [category |-> category, subcategory |-> subcategory,
     confidence |-> confidence, method |-> method]

\* the labels, the propagated records and the count a pass carries along
PassState(lbls, prop, count) == [labels |-> lbls, propagated |-> prop, count |-> count]

Labelled(st, addr, category, subcategory, confidence, method) ==
    PassState(Put(st.labels, addr, category),
              Put(st.propagated, addr,
                  PropRecord(category, subcategory, confidence, method)),
              st.count + 1)

\* clustering.py:89 : rw_count >= 2 and rw_count / len(caller_set) >= 0.67
Majority(rw_count, total) ==
    rw_count >= 2 /\ 100 * rw_count >= MAJORITY_PERCENT * total

\* clustering.py:74-98 (forward) and 101-124 (backward) : one pass over
\* sorted_addrs from index i on
RECURSIVE MajorityPass(_, _, _, _, _)
MajorityPass(calls, addrs, dir, i, st) ==
    IF i > Len(addrs) THEN st
    ELSE LET addr == addrs[i]
             S == NeighbourSet(calls, addr, dir)
             rw_count == Cardinality(RWIn(S, st.labels))
         IN IF \/ addr \in DOMAIN st.labels
               \/ Cardinality(S) < 2
               \/ ~Majority(rw_count, Cardinality(S))
            THEN MajorityPass(calls, addrs, dir, i + 1, st)
            ELSE MajorityPass(calls, addrs, dir, i + 1,
                     Labelled(st, addr, BestLabel(S, st.labels), <<>>,
                              CONFIDENCE_CLUSTER_CALL,
                              IF dir = "forward" THEN "cluster_forward"
                              ELSE "cluster_backward"))

\* clustering.py:188 : rw_addrs
RWAddrs(addrs, lbls) ==
    {addrs[i] : i \in {j \in 1..Len(addrs) : addrs[j] \in DOMAIN lbls /\ IsRW(lbls[addrs[j]])}}

SetMax(S) == CHOOSE x \in S : \A y \in S : y <= x

\* clustering.py:192-196 : region_addrs, in address order
RegionAddrs(addrs, lbls) ==
    LET rw == RWAddrs(addrs, lbls)
    IN SelectSeq(addrs, LAMBDA a : SetMin(rw) <= a /\ a <= SetMax(rw))

\* clustering.py:206-219 : the label a connected function takes; callers are
\* counted before callees
RegionBest(calls, addr, lbls) ==
    LET cs == RWIn(CallersOf(calls, addr), lbls)
        ds == RWIn(calls[addr], lbls)
        n(l) == Cardinality({c \in cs : lbls[c] = l})
                + Cardinality({c \in ds : lbls[c] = l})
        top == {l \in RWCategories : n(l) > 0 /\ \A m \in RWCategories : n(m) <= n(l)}
        inCallers(l) == \E c \in cs : lbls[c] = l
        first(l) == IF inCallers(l) THEN SetMin({c \in cs : lbls[c] = l})
                    ELSE SetMin({c \in ds : lbls[c] = l})
        before(l, m) == \/ inCallers(l) /\ ~inCallers(m)
                        \/ inCallers(l) = inCallers(m) /\ first(l) <= first(m)
    IN CHOOSE l \in top : \A m \in top : before(l, m)

\* clustering.py:201-228 : one round over region_addrs from index i on
RECURSIVE RegionRound(_, _, _, _)
RegionRound(calls, region, i, st) ==
    IF i > Len(region) THEN st
    ELSE LET addr == region[i]
             connected_rw ==
                 RWIn(CallersOf(calls, addr) \cup calls[addr], st.labels) # {}
         IN IF addr \in DOMAIN st.labels \/ ~connected_rw
            THEN RegionRound(calls, region, i + 1, st)
            ELSE RegionRound(calls, region, i + 1,
                     Labelled(st, addr, RegionBest(calls, addr, st.labels), <<>>,
                              CONFIDENCE_REGION, "rw_region_propagation"))

\* clustering.py:251-252 with only library labels counted as labels (faulty
\* variant): a function that carries another label is labelled again
Unlabeled_notRW(lbls, addr) == addr \notin DOMAIN lbls \/ ~IsRW(lbls[addr])

\* clustering.py:251-252 : the function has no label yet
Unlabeled(lbls, addr) == addr \notin DOMAIN lbls

\* clustering.py:245-297 : _proximity_propagation from index i on (i counts
\* from 1, so the loop runs over 2 .. Len - 1)
RECURSIVE ProximityFrom(_, _, _, _, _)
ProximityFrom(addrs, lo, hi, i, st) ==
    IF i > Len(addrs) - 1 THEN st
    ELSE LET addr == addrs[i]
             prev_addr == addrs[i - 1]
             next_addr == addrs[i + 1]
             lbls == st.labels
             prevRW == prev_addr \in DOMAIN lbls /\ IsRW(lbls[prev_addr])
             nextRW == next_addr \in DOMAIN lbls /\ IsRW(lbls[next_addr])
             in_rw_region == lo <= addr /\ addr <= hi
         IN IF ~Unlabeled(lbls, addr) THEN ProximityFrom(addrs, lo, hi, i + 1, st)
            ELSE IF in_rw_region
            THEN IF prevRW /\ addr - prev_addr <= REGION_GAP
                 THEN ProximityFrom(addrs, lo, hi, i + 1,
                          Labelled(st, addr, lbls[prev_addr], <<>>,
                                   CONFIDENCE_REGION_PROXIMITY, "cluster_proximity"))
                 ELSE IF nextRW /\ next_addr - addr <= REGION_GAP
                 THEN ProximityFrom(addrs, lo, hi, i + 1,
                          Labelled(st, addr, lbls[next_addr], <<>>,
                                   CONFIDENCE_REGION_PROXIMITY, "cluster_proximity"))
                 ELSE ProximityFrom(addrs, lo, hi, i + 1, st)
            ELSE IF /\ addr - prev_addr <= PROXIMITY_GAP
                    /\ next_addr - addr <= PROXIMITY_GAP
                    /\ prevRW /\ nextRW
                 THEN ProximityFrom(addrs, lo, hi, i + 1,
                          Labelled(st, addr, lbls[prev_addr], <<>>,
                                   CONFIDENCE_CLUSTER_PROXIMITY, "cluster_proximity"))
                 ELSE ProximityFrom(addrs, lo, hi, i + 1, st)

\* clustering.py:245-247 : the region bounds a proximity pass works with
proximity_propagation(addrs, st) ==
    LET rw == RWAddrs(addrs, st.labels)
        lo == IF rw = {} THEN 0 ELSE SetMin(rw)
        hi == IF rw = {} THEN 0 ELSE SetMax(rw)
    IN ProximityFrom(addrs, lo, hi, 2, PassState(st.labels, st.propagated, 0))

\* clustering.py:300-331 : _classify_rw_consumers from index i on
RECURSIVE ConsumersFrom(_, _, _, _, _)
ConsumersFrom(calls, addrs, rw_code_lo, i, st) ==
    IF i > Len(addrs) THEN st
    ELSE LET addr == addrs[i]
         IN IF \/ addr \in DOMAIN st.labels
               \/ addr >= rw_code_lo
               \/ RWIn(calls[addr], st.labels) = {}
            THEN ConsumersFrom(calls, addrs, rw_code_lo, i + 1, st)
            ELSE ConsumersFrom(calls, addrs, rw_code_lo, i + 1,
                     Labelled(st, addr, "game_engine", <<"engine">>,
                              CONFIDENCE_RW_CONSUMER, "rw_consumer"))

classify_rw_consumers(calls, addrs, st) ==
    LET rw == RWAddrs(addrs, st.labels)
    IN IF rw = {} THEN st ELSE ConsumersFrom(calls, addrs, SetMin(rw), 1, st)

\* clustering.py:346-372 : _classify_xdk_callers from index i on; with one
\* section the most-called category is that section's
RECURSIVE XdkFrom(_, _, _, _)
XdkFrom(calls, addrs, i, st) ==
    IF i > Len(addrs) THEN st
    ELSE LET addr == addrs[i]
             hits == {s \in XDK_SECTIONS :
                         \E target \in calls[addr] : s.lo <= target /\ target < s.hi}
         IN IF addr \in DOMAIN st.labels \/ hits = {}
            THEN XdkFrom(calls, addrs, i + 1, st)
            ELSE LET best_cat == (CHOOSE s \in hits : TRUE).cat
                 IN XdkFrom(calls, addrs, i + 1,
                        Labelled(st, addr, best_cat, <<"render">>,
                                 CONFIDENCE_XDK_CALLER, "xdk_caller"))

\* clustering.py:408-413 : the first category with the highest keyword score
RECURSIVE BestCategory(_, _, _, _)
BestCategory(text, k, best_cat, best_score) ==
    IF k > Len(GAME_SUBCATEGORIES) THEN best_cat
    ELSE LET score == Cardinality(GAME_SUBCATEGORIES[k].keywords \cap text)
         IN IF score > best_score
            THEN BestCategory(text, k + 1, <<GAME_SUBCATEGORIES[k].cat>>, score)
            ELSE BestCategory(text, k + 1, best_cat, best_score)

\* clustering.py:397-425 : _classify_game_subcategories from index i on;
\* texts[addr] is the set of keywords found in the strings addr references
RECURSIVE StringsFrom(_, _, _, _)
StringsFrom(texts, addrs, i, st) ==
    IF i > Len(addrs) THEN st
    ELSE LET addr == addrs[i]
             best == BestCategory(texts[addr], 1, <<>>, 0)
         IN IF addr \in DOMAIN st.labels \/ texts[addr] = {} \/ best = <<>>
            THEN StringsFrom(texts, addrs, i + 1, st)
            ELSE StringsFrom(texts, addrs, i + 1,
                     Labelled(st, addr, "game_" \o best[1], best,
                              CONFIDENCE_STRING_KEYWORD, "string_keyword"))

\* identify.py:92-95, without the deletion (faulty variant)
remove_crt_overlap_kept(crt, rw) == crt

\* identify.py:92-95 : CRT matches that overlap with RW are removed
remove_crt_overlap(crt, rw) ==
    [a \in (DOMAIN crt) \ (DOMAIN rw) |-> crt[a]]

\* clustering.py:57-61 : the labels propagation starts from
InitialLabels(rw, crt) ==
    [a \in (DOMAIN rw) \cup (DOMAIN crt) |->
        IF a \in DOMAIN crt THEN "crt" ELSE rw[a].category]

\* output.py:50-99 : the entry _build_enriched_db makes for addr
EnrichedEntry(addr, rw, crt, prop) ==
    IF addr \in DOMAIN crt
    THEN [category |-> "crt", identified_name |-> crt[addr].name,
          confidence |-> crt[addr].confidence, method |-> crt[addr].method]
    ELSE IF addr \in DOMAIN rw
    THEN [category |-> rw[addr].category, confidence |-> rw[addr].confidence,
          method |-> rw[addr].method]
    ELSE IF addr \in DOMAIN prop
    THEN [category |-> prop[addr].category, subcategory |-> prop[addr].subcategory,
          confidence |-> prop[addr].confidence, method |-> prop[addr].method]
    ELSE [category |-> "unknown", confidence |-> 0, method |-> "none"]

build_enriched_db(funcs, rw, crt, prop) ==
    [addr \in funcs |-> EnrichedEntry(addr, rw, crt, prop)]

\* rw_identifier.py:183-193 and crt_identifier.py:77-87 : the records the two
\* identifiers return
RWResult(category) ==
    [category |-> category, confidence |-> CONFIDENCE_RW_STRING_REF,
     method |-> "rw_string_ref"]

CRTResult(name) ==
    [name |-> name, confidence |-> CONFIDENCE_CRT_SIGNATURE,
     method |-> "crt_signature"]

\* rw_results for the functions lbl gives a category ("" : not identified)
RWResults(funcs, lbl) ==
    [a \in {x \in funcs : lbl[x] # ""} |-> RWResult(lbl[a])]

\* a signature name is matched to one address
CRTResults(funcs) ==
    [a \in funcs |-> CRTResult(IF a = 1 THEN "memcpy" ELSE "strlen")]

\* an input of the pipeline: calls_to of every function, the keywords in the
\* strings it references, and what the two identifiers return
IdentInput(calls, texts, rw, crt) ==
    [calls |-> calls, texts |-> texts, rw |-> rw, crt |-> crt]

\* small call graphs: functions 1..3 may call function 4, function 3 may
\* also call 1 and 2, function 4 may call into the XDK section
SmallInputs ==
    {IdentInput(
        [a \in 1..SmallFuncs |->
            CASE a = 1 -> c1 [] a = 2 -> c2 [] a = 3 -> c3 [] OTHER -> c4],
        [a \in 1..SmallFuncs |-> IF a = SmallFuncs THEN t4 ELSE {}],
        RWResults(1..3, [a \in 1..3 |-> CASE a = 1 -> l1 [] a = 2 -> l2 [] OTHER -> l3]),
        CRTResults(crt)) :
        c1 \in {{}, {4}}, c2 \in {{}, {4}}, c3 \in {{}, {4}, {1, 2}, {1, 2, 4}},
        c4 \in {{}, {XdkTarget}}, t4 \in {{}, {"sound"}},
        l1 \in {"", "rw_core", "rw_world"}, l2 \in {"", "rw_core", "rw_world"},
        l3 \in {"", "rw_core"},
        crt \in {{}, {1}, {1, SmallFuncs - 1}}}

\* a block of n_rw - 1 RenderWare functions, a chain of k unidentified
\* functions each calling the next, and one more RenderWare function above;
\* the chain is linked to RenderWare code at its lower or at its upper end
ChainInput(n_rw, k, link) ==
    LET funcs == 1..(n_rw + k)
        chain == n_rw..(n_rw + k - 1)
        top == n_rw + k
    IN IdentInput(
           [a \in funcs |->
               IF a \in chain
               THEN IF a + 1 \in chain THEN {a + 1}
                    ELSE IF link = "upper" THEN {top} ELSE {}
               ELSE IF link = "lower" /\ a = n_rw - 1 /\ k > 0 THEN {n_rw}
               ELSE {}],
           [a \in funcs |-> {}],
           RWResults(funcs \ chain, [a \in funcs |-> "rw_core"]),
           EmptyDict)

ChainInputs ==
    {ChainInput(n_rw, k, link) :
        n_rw \in {MIN_REGION_RW - 1, MIN_REGION_RW}, k \in 0..MaxChain,
        link \in {"lower", "upper"}}

IdentInputs == SmallInputs \cup ChainInputs

\* identify.py:21 : run() has been called, nothing loaded yet
IdentInit ==
    /\ fiPc = "new"
    /\ fiCalls = EmptyDict /\ fiTexts = EmptyDict
    /\ rw_results = EmptyDict /\ crt_results = EmptyDict /\ fiMatched = {}
    /\ fiLabels = EmptyDict /\ propagated = EmptyDict /\ enriched = EmptyDict
    /\ fiIter = 0 /\ fiNew = 0 /\ fiRound = 0 /\ fiRegion = <<>>

IdentIdle ==
    /\ fiPc = "off"
    /\ fiCalls = EmptyDict /\ fiTexts = EmptyDict
    /\ rw_results = EmptyDict /\ crt_results = EmptyDict /\ fiMatched = {}
    /\ fiLabels = EmptyDict /\ propagated = EmptyDict /\ enriched = EmptyDict
    /\ fiIter = 0 /\ fiNew = 0 /\ fiRound = 0 /\ fiRegion = <<>>

\* clustering.py:64 : sorted_addrs
FiSortedAddrs == SortedSeq(DOMAIN fiCalls)

\* identify.py:44-89 : phases 0 to 3
Identify(inp) ==
    /\ fiPc = "new"
    /\ fiCalls' = inp.calls
    /\ fiTexts' = inp.texts
    /\ rw_results' = inp.rw
    /\ crt_results' = inp.crt
    /\ fiMatched' = DOMAIN inp.crt
    /\ fiPc' = "identified"
    /\ UNCHANGED <<fiLabels, propagated, enriched, fiIter, fiNew, fiRound, fiRegion>>
    /\ UNCHANGED notIdentVars

\* identify.py:91-95
RemoveOverlap ==
    /\ fiPc = "identified"
    /\ crt_results' = remove_crt_overlap(crt_results, rw_results)
    /\ fiPc' = "merged"
    /\ UNCHANGED <<fiCalls, fiTexts, rw_results, fiMatched, fiLabels, propagated,
                   enriched, fiIter, fiNew, fiRound, fiRegion>>
    /\ UNCHANGED notIdentVars

\* identify.py:100, clustering.py:40-67 : propagate_labels is entered
StartPropagation ==
    /\ fiPc = "merged"
    /\ fiLabels' = InitialLabels(rw_results, crt_results)
    /\ propagated' = EmptyDict
    /\ fiIter' = 0
    /\ fiNew' = 0
    /\ fiPc' = "forward"
    /\ UNCHANGED <<fiCalls, fiTexts, rw_results, crt_results, fiMatched, enriched,
                   fiRound, fiRegion>>
    /\ UNCHANGED notIdentVars

\* clustering.py:70-98 : the forward pass of one iteration
ForwardPass ==
    /\ fiPc = "forward"
    /\ \E st \in {MajorityPass(fiCalls, FiSortedAddrs, "forward", 1,
                               PassState(fiLabels, propagated, 0))} :
          /\ fiLabels' = st.labels
          /\ propagated' = st.propagated
          /\ fiNew' = st.count
    /\ fiPc' = "backward"
    /\ UNCHANGED <<fiCalls, fiTexts, rw_results, crt_results, fiMatched, enriched,
                   fiIter, fiRound, fiRegion>>
    /\ UNCHANGED notIdentVars

\* clustering.py:100-130 : the backward pass and the end of the iteration
BackwardPass ==
    /\ fiPc = "backward"
    /\ \E st \in {MajorityPass(fiCalls, FiSortedAddrs, "backward", 1,
                               PassState(fiLabels, propagated, fiNew))} :
          /\ fiLabels' = st.labels
          /\ propagated' = st.propagated
          /\ fiNew' = st.count
          /\ IF st.count = 0 \/ fiIter + 1 >= MAX_CLUSTER_ITERATIONS
             THEN fiPc' = "region" /\ fiIter' = fiIter
             ELSE fiPc' = "forward" /\ fiIter' = fiIter + 1
    /\ UNCHANGED <<fiCalls, fiTexts, rw_results, crt_results, fiMatched, enriched,
                   fiRound, fiRegion>>
    /\ UNCHANGED notIdentVars

\* clustering.py:187-196 : _rw_region_propagation is entered
FloodStart ==
    /\ fiPc = "region"
    /\ IF Cardinality(RWAddrs(FiSortedAddrs, fiLabels)) < MIN_REGION_RW
       THEN fiPc' = "after" /\ fiRegion' = <<>>
       ELSE fiPc' = "flood" /\ fiRegion' = <<RegionAddrs(FiSortedAddrs, fiLabels)>>
    /\ fiRound' = 0
    /\ UNCHANGED <<fiCalls, fiTexts, rw_results, crt_results, fiMatched, fiLabels,
                   propagated, enriched, fiIter, fiNew>>
    /\ UNCHANGED notIdentVars

\* clustering.py:198-233 : one round of the region flood
FloodRound ==
    /\ fiPc = "flood"
    /\ \E st \in {RegionRound(fiCalls, fiRegion[1], 1,
                              PassState(fiLabels, propagated, 0))} :
          /\ fiLabels' = st.labels
          /\ propagated' = st.propagated
          /\ fiPc' = IF st.count = 0 \/ fiRound + 1 >= REGION_ROUNDS
                     THEN "after" ELSE "flood"
    /\ fiRound' = fiRound + 1
    /\ UNCHANGED <<fiCalls, fiTexts, rw_results, crt_results, fiMatched, enriched,
                   fiIter, fiNew, fiRegion>>
    /\ UNCHANGED notIdentVars

\* clustering.py:139-145 : one proximity pass; the loop ends after a pass
\* that adds nothing, or after PROXIMITY_PASSES passes (fiRound counts them)
ProximityPass ==
    /\ fiPc \in {"after", "proximity"}
    /\ \E passes \in {IF fiPc = "after" THEN 0 ELSE fiRound} :
       \E st \in {proximity_propagation(FiSortedAddrs,
                                        PassState(fiLabels, propagated, 0))} :
          /\ fiLabels' = st.labels
          /\ propagated' = st.propagated
          /\ fiRound' = passes + 1
          /\ fiPc' = IF st.count = 0 \/ passes + 1 >= PROXIMITY_PASSES
                     THEN "consumers" ELSE "proximity"
    /\ UNCHANGED <<fiCalls, fiTexts, rw_results, crt_results, fiMatched, enriched,
                   fiIter, fiNew, fiRegion>>
    /\ UNCHANGED notIdentVars

\* clustering.py:148-150 : _classify_rw_consumers
ClassifyConsumers ==
    /\ fiPc = "consumers"
    /\ \E st \in {classify_rw_consumers(fiCalls, FiSortedAddrs,
                                        PassState(fiLabels, propagated, 0))} :
          /\ fiLabels' = st.labels
          /\ propagated' = st.propagated
    /\ fiPc' = "xdk"
    /\ UNCHANGED <<fiCalls, fiTexts, rw_results, crt_results, fiMatched, enriched,
                   fiIter, fiNew, fiRound, fiRegion>>
    /\ UNCHANGED notIdentVars

\* clustering.py:156-158 : _classify_xdk_callers
ClassifyXdkCallers ==
    /\ fiPc = "xdk"
    /\ \E st \in {XdkFrom(fiCalls, FiSortedAddrs, 1,
                          PassState(fiLabels, propagated, 0))} :
          /\ fiLabels' = st.labels
          /\ propagated' = st.propagated
    /\ fiPc' = "strings"
    /\ UNCHANGED <<fiCalls, fiTexts, rw_results, crt_results, fiMatched, enriched,
                   fiIter, fiNew, fiRound, fiRegion>>
    /\ UNCHANGED notIdentVars

\* clustering.py:164-169 : _classify_game_subcategories; propagate_labels
\* returns propagated
ClassifyStrings ==
    /\ fiPc = "strings"
    /\ \E st \in {StringsFrom(fiTexts, FiSortedAddrs, 1,
                              PassState(fiLabels, propagated, 0))} :
          /\ fiLabels' = st.labels
          /\ propagated' = st.propagated
    /\ fiPc' = "propagated"
    /\ UNCHANGED <<fiCalls, fiTexts, rw_results, crt_results, fiMatched, enriched,
                   fiIter, fiNew, fiRound, fiRegion>>
    /\ UNCHANGED notIdentVars

\* identify.py:111-114, output.py:31-35 : the enriched database is written
WriteResults ==
    /\ fiPc = "propagated"
    /\ enriched' = build_enriched_db(DOMAIN fiCalls, rw_results, crt_results,
                                     propagated)
    /\ fiPc' = "written"
    /\ UNCHANGED <<fiCalls, fiTexts, rw_results, crt_results, fiMatched, fiLabels,
                   propagated, fiIter, fiNew, fiRound, fiRegion>>
    /\ UNCHANGED notIdentVars

IdentNext ==
    \/ \E inp \in IdentInputs : Identify(inp)
    \/ RemoveOverlap \/ StartPropagation \/ ForwardPass \/ BackwardPass
    \/ FloodStart \/ FloodRound \/ ProximityPass \/ ClassifyConsumers
    \/ ClassifyXdkCallers \/ ClassifyStrings \/ WriteResults

\* ------------------------------------------------------------------------
\* tools/recomp : disasm.py build_basic_blocks, lifter.py lift_basic_block,
\* translator.py translate_function (the loop over the blocks and the pass
\* over the goto statements)
\* ------------------------------------------------------------------------
MaxInsns == 4          \* instructions of the function being translated

\* disasm.py:14-19 and lifter.py:191-225 : the mnemonic sets, cut down to the
\* mnemonics of the instructions drawn ("stc" is in none of them)
COND_JUMPS == {"jz"}
FLAG_SETTERS == {"cmp"}
FLAGS_UNDEFINED == {"mul"}
EFLAGS_PRESERVE == {"mov", "ret"}

\* jump_target None
NoTarget == 0

\* an address outside every function drawn
OutsideVA == TEXT_VA_START + 256

\* disasm.py:22-38 : Instruction; every instruction is one byte long
LiftInsn(address, mnemonic, operands, jump_target) ==
    [address |-> address, size |-> 1, mnemonic |-> mnemonic,
     operands |-> operands, jump_target |-> jump_target]

IsRet(insn) == insn.mnemonic \in {"ret", "retn", "retf"}
IsJump(insn) == insn.mnemonic = "jmp"
IsCondJump(insn) == insn.mnemonic \in COND_JUMPS
EndAddress(insn) == insn.address + insn.size

\* the instruction kinds a function is made of: mnemonic, operands, and the
\* jump target as an offset from the function start (-1 : none)
InsnKinds ==
    {<<"cmp", <<"eax", "ebx">>, -1>>, <<"mov", <<"eax", "ecx">>, -1>>,
     <<"mul", <<"ecx">>, -1>>, <<"stc", <<>>, -1>>, <<"ret", <<>>, -1>>,
     <<"jz", <<>>, 2>>, <<"jmp", <<>>, 2>>, <<"jmp", <<>>, 256>>}

\* the function drawn from a choice k of 1..MaxInsns instruction kinds: its
\* instructions from TEXT_VA_START on
LiftFunction(k) ==
    [i \in DOMAIN k |->
        LiftInsn(TEXT_VA_START + i - 1, k[i][1], k[i][2],
                 IF k[i][3] < 0 THEN NoTarget ELSE TEXT_VA_START + k[i][3])]

\* disasm.py:157 : the decoder stops at the first bytes it cannot decode, so
\* the function may go on for some bytes after its last instruction
TailBytes == {0, 1}

\* disasm.py:201-211 : the block leaders
Leaders(insns, func_start, func_end) ==
    {func_start}
    \cup {insns[i].jump_target :
            i \in {j \in 1..Len(insns) :
                      /\ IsJump(insns[j]) \/ IsCondJump(insns[j])
                      /\ insns[j].jump_target # NoTarget
                      /\ func_start <= insns[j].jump_target
                      /\ insns[j].jump_target < func_end}}
    \cup {EndAddress(insns[i]) :
            i \in {j \in 1..Len(insns) :
                      \/ IsJump(insns[j]) \/ IsCondJump(insns[j])
                      \/ insns[j].mnemonic = "call"}}

\* disasm.py:214 : addr_to_idx
AddrToIdx(insns, addr) == CHOOSE i \in 1..Len(insns) : insns[i].address = addr

\* disasm.py:227-238 : the instructions of the block from index idx on
RECURSIVE BlockInsns(_, _, _, _)
BlockInsns(insns, idx, leader, next_leader) ==
    IF idx > Len(insns) THEN <<>>
    ELSE LET insn == insns[idx]
         IN IF insn.address >= next_leader /\ insn.address # leader THEN <<>>
            ELSE IF IsRet(insn) \/ IsJump(insn) \/ IsCondJump(insn) THEN <<insn>>
            ELSE <<insn>> \o BlockInsns(insns, idx + 1, leader, next_leader)

\* the successors when every direct jump target is recorded, inside the
\* function or not
Successors_anyTarget(insns, block_insns, func_start, func_end) ==
    LET last == block_insns[Len(block_insns)]
        hasTarget(t) == t # NoTarget
        hasInsn(a) == \E i \in 1..Len(insns) : insns[i].address = a
    IN IF block_insns = <<>> THEN <<>>
       ELSE IF IsRet(last) THEN <<>>
       ELSE IF IsJump(last)
       THEN IF hasTarget(last.jump_target) THEN <<last.jump_target>> ELSE <<>>
       ELSE IF IsCondJump(last)
       THEN (IF EndAddress(last) < func_end THEN <<EndAddress(last)>> ELSE <<>>)
            \o (IF hasTarget(last.jump_target) THEN <<last.jump_target>> ELSE <<>>)
       ELSE IF EndAddress(last) < func_end /\ hasInsn(EndAddress(last))
       THEN <<EndAddress(last)>> ELSE <<>>

\* disasm.py:240-258 : the successors of a block, in the order appended
Successors(insns, block_insns, func_start, func_end) ==
    LET last == block_insns[Len(block_insns)]
        inFunc(t) == t # NoTarget /\ func_start <= t /\ t < func_end
        hasInsn(a) == \E i \in 1..Len(insns) : insns[i].address = a
    IN IF block_insns = <<>> THEN <<>>
       ELSE IF IsRet(last) THEN <<>>
       ELSE IF IsJump(last)
       THEN IF inFunc(last.jump_target) THEN <<last.jump_target>> ELSE <<>>
       ELSE IF IsCondJump(last)
       THEN (IF EndAddress(last) < func_end THEN <<EndAddress(last)>> ELSE <<>>)
            \o (IF inFunc(last.jump_target) THEN <<last.jump_target>> ELSE <<>>)
       ELSE IF EndAddress(last) < func_end /\ hasInsn(EndAddress(last))
       THEN <<EndAddress(last)>> ELSE <<>>

\* disasm.py:190-262 : Disassembler.build_basic_blocks with its successors
BuildBlocks(insns, func_start, func_end) ==
    IF insns = <<>> THEN <<>>
    ELSE LET addrs == {insns[i].address : i \in 1..Len(insns)}
             sorted_leaders == SortedSeq(Leaders(insns, func_start, func_end) \cap addrs)
         IN [i \in 1..Len(sorted_leaders) |->
                LET leader == sorted_leaders[i]
                    next_leader == IF i + 1 <= Len(sorted_leaders)
                                   THEN sorted_leaders[i + 1] ELSE func_end
                    bi == BlockInsns(insns, AddrToIdx(insns, leader), leader, next_leader)
                IN [start |-> leader, instructions |-> bi,
                    successors |-> Successors(insns, bi, func_start, func_end)]]

\* a flag state is <<>> (None) or <<[setter, ops, at]>>: the mnemonic and the
\* operand list of the instruction that set the flags; the operand objects
\* are those of the instruction at address at
FlagState(setter, ops, at) == <<[setter |-> setter, ops |-> ops, at |-> at]>>

\* lifter.py:274-359 : _make_condition for the conditional jumps and flag
\* setters drawn (COND_MAP["jz"] = CMP_EQ); <<>> is None
make_condition(jcc, flag_setter, flag_ops) ==
    IF jcc \notin COND_JUMPS THEN <<>>
    ELSE IF Len(flag_ops) = 0 THEN <<>>
    ELSE IF flag_setter = "cmp" /\ Len(flag_ops) >= 2
    THEN <<[macro |-> "CMP_EQ", lhs |-> flag_ops[1], rhs |-> flag_ops[2]]>>
    ELSE <<>>

\* a line of the C text: what it does (a label, a goto, a call, ...), the
\* address it names, the address of the instruction it was lifted from, the
\* condition it tests (<<>> : none or the opaque _flags) and the address of
\* the flag setter the condition was made from
Line(kind, target, at, cond, from) ==
    [kind |-> kind, target |-> target, at |-> at, cond |-> cond, from |-> from]

\* lifter.py:601-610 : _emit_cond_goto
emit_cond_goto(cond, insn, from, func_start, func_end) ==
    Line(IF insn.jump_target = NoTarget THEN "cond_indirect"
         ELSE IF ~(func_start <= insn.jump_target /\ insn.jump_target < func_end)
         THEN "cond_call" ELSE "cond_goto",
         insn.jump_target, insn.address, <<cond>>, from)

\* lifter.py:668-816, 1079-1128 : Lifter.lift_instruction, one statement per
\* instruction
lift_instruction(insn, func_start, func_end) ==
    LET external == ~(func_start <= insn.jump_target /\ insn.jump_target < func_end)
    IN IF IsRet(insn) THEN Line("return", NoTarget, insn.address, <<>>, NoAddr)
       ELSE IF IsJump(insn)
       THEN Line(IF insn.jump_target = NoTarget THEN "no_target"
                 ELSE IF external THEN "tail_call" ELSE "goto",
                 insn.jump_target, insn.address, <<>>, NoAddr)
       ELSE IF IsCondJump(insn)
       THEN Line(IF insn.jump_target = NoTarget THEN "no_target"
                 ELSE IF external THEN "flags_call" ELSE "flags_goto",
                 insn.jump_target, insn.address, <<>>, NoAddr)
       ELSE Line(insn.mnemonic, NoTarget, insn.address, <<>>, NoAddr)

\* the flag state when a mnemonic found in none of the sets leaves it alone
TrackFlags_keepUnknown(curr, last) ==
    IF curr.mnemonic \in FLAG_SETTERS
    THEN FlagState(curr.mnemonic, curr.operands, curr.address)
    ELSE IF curr.mnemonic \in FLAGS_UNDEFINED THEN <<>>
    ELSE IF curr.mnemonic \in EFLAGS_PRESERVE THEN last
    ELSE IF curr.mnemonic \in {"jz", "jmp"} THEN last
    ELSE last

\* lifter.py:1525-1571 : the flag state after an instruction lifted normally
\* (of the mnemonics drawn only the jumps start with "f", "cmov", "j", "set"
\* or "rep")
TrackFlags(curr, last) ==
    IF curr.mnemonic \in FLAG_SETTERS
    THEN FlagState(curr.mnemonic, curr.operands, curr.address)
    ELSE IF curr.mnemonic \in FLAGS_UNDEFINED THEN <<>>
    ELSE IF curr.mnemonic \in EFLAGS_PRESERVE THEN last
    ELSE IF curr.mnemonic \in {"jz", "jmp"} THEN last
    ELSE <<>>

\* lifter.py:613-637 : try_match_cmp_jcc; <<>> is None
try_match_cmp_jcc(insns, idx) ==
    IF idx + 1 > Len(insns) THEN <<>>
    ELSE IF insns[idx].mnemonic \notin {"cmp", "test"} \/ ~IsCondJump(insns[idx + 1])
    THEN <<>>
    ELSE IF Len(insns[idx].operands) < 2 THEN <<>>
    ELSE make_condition(insns[idx + 1].mnemonic, insns[idx].mnemonic,
                        insns[idx].operands)

\* lifter.py:1456-1573 : the loop of lift_basic_block from index i on
RECURSIVE LiftFrom(_, _, _, _, _, _)
LiftFrom(insns, i, last, stmts, func_start, func_end) ==
    IF i > Len(insns) THEN [stmts |-> stmts, flag_state |-> last]
    ELSE LET curr == insns[i]
             match == try_match_cmp_jcc(insns, i)
             cond == IF IsCondJump(curr) /\ last # <<>>
                     THEN make_condition(curr.mnemonic, last[1].setter, last[1].ops)
                     ELSE <<>>
         IN IF match # <<>>
            THEN LiftFrom(insns, i + 2,
                          FlagState(curr.mnemonic, curr.operands, curr.address),
                          Append(stmts, emit_cond_goto(match[1], insns[i + 1],
                                                       curr.address,
                                                       func_start, func_end)),
                          func_start, func_end)
            ELSE IF cond # <<>>
            THEN LiftFrom(insns, i + 1, last,
                          Append(stmts, emit_cond_goto(cond[1], curr, last[1].at,
                                                       func_start, func_end)),
                          func_start, func_end)
            ELSE LiftFrom(insns, i + 1, TrackFlags(curr, last),
                          Append(stmts, lift_instruction(curr, func_start, func_end)),
                          func_start, func_end)

\* lifter.py:1430-1576 : lift_basic_block
lift_basic_block(bb, flag_state, func_start, func_end) ==
    LiftFrom(bb.instructions, 1, flag_state, <<>>, func_start, func_end)

\* translator.py:256-264 : label_addrs
label_addrs(blocks, insns, start, end) ==
    UNION {{blocks[b].successors[i] : i \in 1..Len(blocks[b].successors)} :
             b \in 1..Len(blocks)}
    \cup {insns[i].jump_target :
            i \in {j \in 1..Len(insns) :
                      /\ insns[j].jump_target # NoTarget
                      /\ start <= insns[j].jump_target
                      /\ insns[j].jump_target < end}}

\* the lines that hold "goto loc_X;"
GotoKinds == {"goto", "cond_goto", "flags_goto"}

\* translator.py:287-290 : defined_labels
defined_labels(lines) ==
    {lines[i].target : i \in {j \in 1..Len(lines) : lines[j].kind = "label"}}

\* the pass over the goto statements when only the lines that are a goto and
\* nothing else are looked at
ValidateGotos_plainOnly(lines) ==
    [i \in 1..Len(lines) |->
        IF lines[i].kind = "goto" /\ lines[i].target \notin defined_labels(lines)
        THEN [lines[i] EXCEPT !.kind = "void"]
        ELSE lines[i]]

\* translator.py:282-298 : a goto whose label is not defined becomes
\* "(void)0;", the rest of its line is kept
ValidateGotos(lines) ==
    [i \in 1..Len(lines) |->
        IF lines[i].kind \in GotoKinds /\ lines[i].target \notin defined_labels(lines)
        THEN [lines[i] EXCEPT !.kind = "void"]
        ELSE lines[i]]

\* nothing is being translated
LiftInit ==
    /\ lfPc = "new"
    /\ lfInsns = <<>> /\ lfEnd = 0 /\ lfBlocks = <<>> /\ lfIdx = 0
    /\ lfFlag = <<>> /\ lfIn = <<>> /\ lfStmts = <<>>

LiftIdle ==
    /\ lfPc = "off"
    /\ lfInsns = <<>> /\ lfEnd = 0 /\ lfBlocks = <<>> /\ lfIdx = 0
    /\ lfFlag = <<>> /\ lfIn = <<>> /\ lfStmts = <<>>

\* translator.py:74-115, 266 : the function is disassembled, its blocks are
\* built, flag_state = None
StartFunction(insns, tail) ==
    /\ lfPc = "new"
    /\ lfInsns' = insns
    /\ lfEnd' = TEXT_VA_START + Len(insns) + tail
    /\ lfBlocks' = BuildBlocks(insns, TEXT_VA_START, TEXT_VA_START + Len(insns) + tail)
    /\ lfIdx' = 1
    /\ lfFlag' = <<>>
    /\ lfIn' = <<>>
    /\ lfStmts' = <<>>
    /\ lfPc' = "blocks"
    /\ UNCHANGED notLiftVars

\* translator.py:267-280 : one turn of the loop over the blocks
LiftBlock ==
    /\ lfPc = "blocks"
    /\ lfIdx <= Len(lfBlocks)
    /\ LET bb == lfBlocks[lfIdx]
           r == lift_basic_block(bb, lfFlag, TEXT_VA_START, lfEnd)
           label == IF \/ bb.start \in label_addrs(lfBlocks, lfInsns,
                                                   TEXT_VA_START, lfEnd)
                       \/ bb.start = TEXT_VA_START
                    THEN <<Line("label", bb.start, bb.start, <<>>, NoAddr)>>
                    ELSE <<>>
       IN /\ lfStmts' = lfStmts \o label \o r.stmts
          /\ lfFlag' = r.flag_state
    /\ lfIn' = Append(lfIn, lfFlag)
    /\ lfIdx' = lfIdx + 1
    /\ UNCHANGED <<lfInsns, lfEnd, lfBlocks, lfPc>>
    /\ UNCHANGED notLiftVars

\* translator.py:282-311 : after the loop over the blocks the goto
\* statements are validated and the text is returned
BlocksDone ==
    /\ lfPc = "blocks"
    /\ lfIdx > Len(lfBlocks)
    /\ lfStmts' = ValidateGotos(lfStmts)
    /\ lfPc' = "done"
    /\ UNCHANGED <<lfInsns, lfEnd, lfBlocks, lfIdx, lfFlag, lfIn>>
    /\ UNCHANGED notLiftVars

LiftNext ==
    \/ /\ lfPc = "new"
       /\ \E n \in 1..MaxInsns : \E k \in [1..n -> InsnKinds] :
          \E tail \in TailBytes : StartFunction(LiftFunction(k), tail)
    \/ LiftBlock
    \/ BlocksDone

\* ------------------------------------------------------------------------
\* tools/disasm/engine.py : DisasmEngine.recursive_descent, one loop
\* iteration at a time
\* ------------------------------------------------------------------------
MaxRdAddr == 3

\* section_bounds: one section [1, MaxRdAddr + 1)
RdBounds == {<<1, MaxRdAddr + 1>>}

\* an address outside every section at which an instruction is decoded
RdOutside == MaxRdAddr + 2

\* engine.py:206-207 : in_bounds
in_bounds(bounds, addr) == \E b \in bounds : b[1] <= addr /\ addr < b[2]

\* an Instruction as _classify_instruction (engine.py:88-138) leaves it,
\* restricted to the fields recursive_descent reads
RdInsn(address, size, mnemonic, target) ==
    [address |-> address, size |-> size, mnemonic |-> mnemonic,
     is_call |-> mnemonic \in CALL_MNEMONICS,
     is_ret |-> mnemonic \in RET_MNEMONICS,
     is_jump |-> mnemonic \in JMP_MNEMONICS,
     is_cond_jump |-> mnemonic \in COND_JMP_MNEMONICS,
     call_target |-> IF mnemonic \in CALL_MNEMONICS THEN target ELSE NoAddr,
     jump_target |-> IF mnemonic \in JMP_MNEMONICS \cup COND_JMP_MNEMONICS
                     THEN target ELSE NoAddr]

\* branch targets: the first address, the last one, and one outside the section
RdTargets == {1, MaxRdAddr, RdOutside}

\* what may be decoded at an address: nothing (<<>>) or <<size, mnemonic,
\* target>>; a jmp may be indirect (no target)
RdShapes ==
    {<<>>, <<1, "mov", NoAddr>>, <<2, "mov", NoAddr>>, <<1, "ret", NoAddr>>,
     <<1, "jmp", NoAddr>>}
    \cup {<<1, m, t>> : m \in {"call", "jz", "jmp"}, t \in RdTargets}

\* the instruction maps: any shape at the addresses of the section, and a
\* ret decoded at RdOutside
RdMaps ==
    {[a \in {b \in 1..MaxRdAddr : ch[b] # <<>>} \cup {RdOutside} |->
        IF a = RdOutside THEN RdInsn(a, 1, "ret", NoAddr)
        ELSE RdInsn(a, ch[a][1], ch[a][2], ch[a][3])] :
     ch \in [1..MaxRdAddr -> RdShapes]}

RdSeeds == {<<1>>, <<MaxRdAddr, 2>>, <<RdOutside, 2>>}

\* engine.py:229-243 : the targets one instruction appends to the worklist,
\* in the order of the three tests
Pushes(insn, bounds, visited_starts) ==
    (IF insn.is_call /\ insn.call_target # NoAddr
        /\ in_bounds(bounds, insn.call_target)
        /\ insn.call_target \notin visited_starts
     THEN <<insn.call_target>> ELSE <<>>)
    \o (IF insn.is_cond_jump /\ insn.jump_target # NoAddr
           /\ in_bounds(bounds, insn.jump_target)
           /\ insn.jump_target \notin visited_starts
        THEN <<insn.jump_target>> ELSE <<>>)
    \o (IF insn.is_jump /\ insn.jump_target # NoAddr
           /\ in_bounds(bounds, insn.jump_target)
           /\ insn.jump_target \notin visited_starts
        THEN <<insn.jump_target>> ELSE <<>>)

\* engine.py:239-246 with the walk also stopped at a call (faulty variant)
StopsWalk_atCall(insn) == insn.is_jump \/ insn.is_ret \/ insn.is_call

\* engine.py:239-246 : the two breaks that end the linear walk
StopsWalk(insn) == insn.is_jump \/ insn.is_ret

\* before recursive_descent is called
DescentIdle ==
    /\ rdInsns = EmptyDict
    /\ rdBounds = {}
    /\ rdSeeds = <<>>
    /\ rdWork = <<>>
    /\ rdVisited = {}
    /\ rdReach = {}
    /\ rdAddr = NoAddr
    /\ rdPc = "off"

\* engine.py:202-204 : recursive_descent(start_addresses, section_bounds)
\* up to the outer loop
DescentInit ==
    /\ rdInsns \in RdMaps
    /\ rdBounds = RdBounds
    /\ rdSeeds \in RdSeeds
    /\ rdWork = rdSeeds
    /\ rdVisited = {}
    /\ rdReach = {}
    /\ rdAddr = NoAddr
    /\ rdPc = "loop"

\* engine.py:209-213 : worklist.pop() and the visited_starts test
PopStart ==
    /\ rdPc = "loop"
    /\ rdWork # <<>>
    /\ LET addr == rdWork[Len(rdWork)]
       IN  /\ rdWork' = SubSeq(rdWork, 1, Len(rdWork) - 1)
           /\ IF addr \in rdVisited
              THEN UNCHANGED <<rdVisited, rdAddr, rdPc>>
              ELSE /\ rdVisited' = rdVisited \cup {addr}
                   /\ rdAddr' = addr
                   /\ rdPc' = "walk"
    /\ UNCHANGED <<rdInsns, rdBounds, rdSeeds, rdReach>>
    /\ UNCHANGED notDescentVars

\* engine.py:216-248 : one iteration of the linear walk
WalkStep ==
    /\ rdPc = "walk"
    /\ IF rdAddr \in rdReach \/ ~in_bounds(rdBounds, rdAddr)
          \/ rdAddr \notin DOMAIN rdInsns
       THEN /\ rdPc' = "loop"
            /\ rdAddr' = NoAddr
            /\ UNCHANGED <<rdReach, rdWork>>
       ELSE LET insn == rdInsns[rdAddr]
            IN  /\ rdReach' = rdReach \cup {rdAddr}
                /\ rdWork' = rdWork \o Pushes(insn, rdBounds, rdVisited)
                /\ IF StopsWalk(insn)
                   THEN rdPc' = "loop" /\ rdAddr' = NoAddr
                   ELSE rdPc' = "walk" /\ rdAddr' = end_address(insn)
    /\ UNCHANGED <<rdInsns, rdBounds, rdSeeds, rdVisited>>
    /\ UNCHANGED notDescentVars

\* engine.py:209, 250 : the worklist is empty, return reachable
ReturnReachable ==
    /\ rdPc = "loop"
    /\ rdWork = <<>>
    /\ rdPc' = "done"
    /\ UNCHANGED <<rdInsns, rdBounds, rdSeeds, rdWork, rdVisited, rdReach, rdAddr>>
    /\ UNCHANGED notDescentVars

DescentNext == PopStart \/ WalkStep \/ ReturnReachable

\* ------------------------------------------------------------------------
\* tools/func_id/crt_identifier.py : identify_crt_functions, one signature
\* test at a time
\* ------------------------------------------------------------------------
MaxCrtFuncs == 3

\* config.py:71-204 : CRT_SIGNATURES, the entries _ftol, _chkstk,
\* _alloca_probe and _purecall in the order of the table; a mask of <<>> is
\* None
CRT_SIGNATURES ==
    << [name |-> "_ftol", pattern |-> <<217, 68, 36, 0>>,
        mask |-> <<255, 255, 255, 0>>, max_size |-> 64],
       [name |-> "_chkstk", pattern |-> <<81, 61, 0, 16, 0, 0>>,
        mask |-> <<>>, max_size |-> 64],
       [name |-> "_alloca_probe", pattern |-> <<81, 61, 0, 16, 0, 0>>,
        mask |-> <<>>, max_size |-> 64],
       [name |-> "_purecall", pattern |-> <<106, 25>>,
        mask |-> <<>>, max_size |-> 16] >>

RECURSIVE BitAnd(_, _)
\* a & b on naturals
BitAnd(a, b) ==
    IF a = 0 \/ b = 0 THEN 0
    ELSE 2 * BitAnd(a \div 2, b \div 2) + (IF a % 2 = 1 /\ b % 2 = 1 THEN 1 ELSE 0)

\* crt_identifier.py:97-108 : _match_pattern
match_pattern(func_bytes, pattern, mask) ==
    IF mask = <<>> THEN SubSeq(func_bytes, 1, Len(pattern)) = pattern
    ELSE \A i \in 1..Len(pattern) :
            IF mask[i] = 255 THEN func_bytes[i] = pattern[i]
            ELSE IF mask[i] # 0
                 THEN BitAnd(func_bytes[i], mask[i]) = BitAnd(pattern[i], mask[i])
                 ELSE TRUE

\* crt_identifier.py:53-60 : the signature applies to the function: enough
\* bytes were read, the function is not too large, the pattern matches
SigMatches(func, sig) ==
    /\ Len(func.bytes) >= Len(sig.pattern)
    /\ ~(sig.max_size > 0 /\ func.size > sig.max_size * 2)
    /\ match_pattern(func.bytes, sig.pattern, sig.mask)

\* crt_identifier.py:62-64 with < in place of <= (faulty variant): a pattern
\* of the same length replaces the entry of the function
KeepsEntry_sameLength(results, func_addr, sig) ==
    func_addr \in DOMAIN results
    /\ Len(sig.pattern) < results[func_addr].pattern_len

\* crt_identifier.py:62-64 : the function already has an entry from a
\* pattern that is at least as long
KeepsEntry(results, func_addr, sig) ==
    func_addr \in DOMAIN results
    /\ Len(sig.pattern) <= results[func_addr].pattern_len

\* crt_identifier.py:71 : the earlier holder of the name is kept
KeepsHolder(func_size, prev_size) ==
    func_size > 0 /\ prev_size > 0 /\ func_size >= prev_size

\* crt_identifier.py:76-82
CrtEntry(sig, func_size) ==
    [name |-> sig.name, confidence |-> CONFIDENCE_CRT_SIGNATURE,
     method |-> "crt_signature", pattern_len |-> Len(sig.pattern),
     func_size |-> func_size]

\* the bytes read at a function start (crt_identifier.py:41-49): the
\* _chkstk/_alloca_probe prologue, a _purecall body cut off by the end of
\* the file, an _ftol prologue, and a read of one byte
CrtBytes ==
    {<<81, 61, 0, 16, 0, 0, 195>>, <<106, 25>>, <<217, 68, 36, 7, 195>>, <<81>>}

CrtSizes == {0, 8, 40}

\* functions: MaxCrtFuncs entries in the order they are examined; a start
\* address outside every section (crt_identifier.py:41-43) is passed over
\* like a read of one byte
CrtFunctionLists ==
    {[i \in 1..MaxCrtFuncs |-> [start |-> i, size |-> sz[i], bytes |-> by[i]]] :
        sz \in [1..MaxCrtFuncs -> CrtSizes], by \in [1..MaxCrtFuncs -> CrtBytes]}

\* before identify_crt_functions is called
CrtIdle ==
    /\ ciFuncs = <<>>
    /\ ciResults = EmptyDict
    /\ matched_names = EmptyDict
    /\ ciF = 0
    /\ ciS = 0
    /\ ciPc = "off"

\* crt_identifier.py:28-31 : identify_crt_functions(xbe_data, functions)
CrtInit ==
    /\ ciFuncs \in CrtFunctionLists
    /\ ciResults = EmptyDict
    /\ matched_names = EmptyDict
    /\ ciF = 1
    /\ ciS = 1
    /\ ciPc = "match"

\* the position after the signature at ciS: the next signature, or the next
\* function
CrtAdvance ==
    /\ ciS' = IF ciS < Len(CRT_SIGNATURES) THEN ciS + 1 ELSE 1
    /\ ciF' = IF ciS < Len(CRT_SIGNATURES) THEN ciF ELSE ciF + 1

\* crt_identifier.py:36-49 : a function of which fewer than 2 bytes can be
\* read is passed over
SkipFunction ==
    /\ ciPc = "match"
    /\ ciF <= Len(ciFuncs)
    /\ ciS = 1
    /\ Len(ciFuncs[ciF].bytes) < 2
    /\ ciF' = ciF + 1
    /\ UNCHANGED <<ciFuncs, ciResults, matched_names, ciS, ciPc>>
    /\ UNCHANGED notCrtVars

\* crt_identifier.py:52-64 : the signature does not apply, or the function
\* keeps the entry it has
NoMatch ==
    /\ ciPc = "match"
    /\ ciF <= Len(ciFuncs)
    /\ Len(ciFuncs[ciF].bytes) >= 2
    /\ \/ ~SigMatches(ciFuncs[ciF], CRT_SIGNATURES[ciS])
       \/ KeepsEntry(ciResults, ciFuncs[ciF].start, CRT_SIGNATURES[ciS])
    /\ CrtAdvance
    /\ UNCHANGED <<ciFuncs, ciResults, matched_names, ciPc>>
    /\ UNCHANGED notCrtVars

\* crt_identifier.py:60-83 : the signature matches; a name already matched is
\* resolved against its holder (results[prev_addr] raises KeyError when the
\* holder has no entry), then the entry and the name are recorded
Match ==
    /\ ciPc = "match"
    /\ ciF <= Len(ciFuncs)
    /\ Len(ciFuncs[ciF].bytes) >= 2
    /\ LET func == ciFuncs[ciF]
           sig == CRT_SIGNATURES[ciS]
           prev_addr == matched_names[sig.name]
       IN  /\ SigMatches(func, sig)
           /\ ~KeepsEntry(ciResults, func.start, sig)
           /\ IF sig.name \in DOMAIN matched_names
              THEN IF prev_addr \notin DOMAIN ciResults
                   THEN /\ ciPc' = "raised"
                        /\ UNCHANGED <<ciResults, matched_names, ciF, ciS>>
                   ELSE IF KeepsHolder(func.size, ciResults[prev_addr].func_size)
                        THEN /\ CrtAdvance
                             /\ UNCHANGED <<ciResults, matched_names, ciPc>>
                        ELSE /\ ciResults' = Put(Remove(ciResults, prev_addr),
                                                 func.start, CrtEntry(sig, func.size))
                             /\ matched_names' = Put(matched_names, sig.name, func.start)
                             /\ CrtAdvance
                             /\ UNCHANGED ciPc
              ELSE /\ ciResults' = Put(ciResults, func.start, CrtEntry(sig, func.size))
                   /\ matched_names' = Put(matched_names, sig.name, func.start)
                   /\ CrtAdvance
                   /\ UNCHANGED ciPc
    /\ UNCHANGED ciFuncs
    /\ UNCHANGED notCrtVars

\* crt_identifier.py:85-94 : the loop is over; func_size is dropped from the
\* entries and results is returned
ReturnResults ==
    /\ ciPc = "match"
    /\ ciF > Len(ciFuncs)
    /\ ciResults' = [a \in DOMAIN ciResults |->
                        [name |-> ciResults[a].name,
                         confidence |-> ciResults[a].confidence,
                         method |-> ciResults[a].method,
                         pattern_len |-> ciResults[a].pattern_len]]
    /\ ciPc' = "done"
    /\ UNCHANGED <<ciFuncs, matched_names, ciF, ciS>>
    /\ UNCHANGED notCrtVars

CrtNext == SkipFunction \/ NoMatch \/ Match \/ ReturnResults

\* ------------------------------------------------------------------------
\* tools/disasm : disasm.py (Disassembler.run), output.py (write_all),
\* cache.py, with runs that fail while the output files are written
\* ------------------------------------------------------------------------
MaxRuns == 3          \* runs made on one output directory

\* the analysis JSON is found and keeps its content
RerunJson == 0

\* the flags of a run; verbose only prints
RerunFlags == {f \in RunFlags : ~f.verbose}

\* output.py:47-51 : the order in which write_all writes the required files
OutputOrder ==
    <<"summary.json", "functions.json", "xrefs.json", "strings.json", "labels.json">>

\* an output file as written by the analysis of the binary xbe under the
\* flag text_only; whole is FALSE when the write was cut short
WrittenFile(xbe, text_only, whole) ==
    <<[xbe |-> xbe, text_only |-> text_only, whole |-> whole]>>

\* output.py:38-51 : write_all until it returns (k = 5) or raises: the first
\* k files are written, and the file after them is left cut short when the
\* failure happens inside its write
write_all(outs, xbe, text_only, k, cut) ==
    [f \in required_files |->
        IF \E i \in 1..k : OutputOrder[i] = f
        THEN WrittenFile(xbe, text_only, TRUE)
        ELSE IF cut /\ k < Len(OutputOrder) /\ OutputOrder[k + 1] = f
        THEN WrittenFile(xbe, text_only, FALSE)
        ELSE outs[f]]

\* cache.py:86-93 : the output files that exist
ExistingOutputs(outs) == {f \in required_files : outs[f] # <<>>}

\* disasm.py:66-69 : the condition of the early "Cache hit" return
RerunCacheHit(flags) ==
    /\ ~flags.force
    /\ is_valid(rrCache, rrXbe, RerunJson, flags.text_only, ExistingOutputs(rrOutputs))

\* an empty output directory
RerunInit ==
    /\ rrXbe \in Contents
    /\ rrCache = <<>>
    /\ rrOutputs = [f \in required_files |-> <<>>]
    /\ rrRuns = 0
    /\ rrLast = <<>>

RerunIdle ==
    /\ rrXbe = 0
    /\ rrCache = <<>>
    /\ rrOutputs = <<>>
    /\ rrRuns = 0
    /\ rrLast = <<>>

\* disasm.py:64-75 : run() returning early on a cache hit
RerunHit(flags) ==
    /\ rrRuns < MaxRuns
    /\ RerunCacheHit(flags)
    /\ rrLast' = <<[flags |-> flags, hit |-> TRUE]>>
    /\ rrRuns' = rrRuns + 1
    /\ UNCHANGED <<rrXbe, rrCache, rrOutputs>>
    /\ UNCHANGED notRerunVars

\* disasm.py:77-199 : run() analysing, writing every output file and then
\* the cache file
RerunCompletes(flags) ==
    /\ rrRuns < MaxRuns
    /\ ~RerunCacheHit(flags)
    /\ rrOutputs' = IF flags.stats_only THEN rrOutputs
                    ELSE write_all(rrOutputs, rrXbe, flags.text_only,
                                   Len(OutputOrder), FALSE)
    /\ rrCache' = IF flags.stats_only THEN rrCache
                  ELSE cache_save(rrXbe, RerunJson, flags)
    /\ rrLast' = <<[flags |-> flags, hit |-> FALSE]>>
    /\ rrRuns' = rrRuns + 1
    /\ UNCHANGED rrXbe
    /\ UNCHANGED notRerunVars

\* disasm.py:182-188 : write_all raises (an I/O error, an interrupt) after k
\* files; run() is left before cache.save
RerunFails(flags, k, cut) ==
    /\ rrRuns < MaxRuns
    /\ ~RerunCacheHit(flags)
    /\ ~flags.stats_only
    /\ rrOutputs' = write_all(rrOutputs, rrXbe, flags.text_only, k, cut)
    /\ rrLast' = <<>>
    /\ rrRuns' = rrRuns + 1
    /\ UNCHANGED <<rrXbe, rrCache>>
    /\ UNCHANGED notRerunVars

\* the user replaces the input binary between two runs
ReplaceXbe(c) ==
    /\ c # rrXbe
    /\ rrXbe' = c
    /\ rrLast' = <<>>
    /\ UNCHANGED <<rrCache, rrOutputs, rrRuns>>
    /\ UNCHANGED notRerunVars

RerunNext ==
    \/ \E flags \in RerunFlags : RerunHit(flags)
    \/ \E flags \in RerunFlags : RerunCompletes(flags)
    \/ \E flags \in RerunFlags : \E k \in 0..(Len(OutputOrder) - 1) :
       \E cut \in BOOLEAN : RerunFails(flags, k, cut)
    \/ \E c \in Contents : ReplaceXbe(c)

\* the components added last are switched off
LateIdle == DescentIdle /\ CrtIdle /\ RerunIdle

\* every component added after the disassembly pipeline is switched off
MoreIdle == EngineIdle /\ ParseIdle /\ IdentIdle /\ LiftIdle /\ LateIdle

\* the components before them are switched off
FirstIdle == LabelsIdle /\ GlobalsIdle /\ BatchIdle /\ CacheIdle /\ DetectIdle

EarlierIdle == FirstIdle /\ EngineIdle /\ ParseIdle /\ IdentIdle /\ LiftIdle

\* ------------------------------------------------------------------------
\* Specifications
\* ------------------------------------------------------------------------
InitLabels == LabelsInit /\ GlobalsIdle /\ BatchIdle /\ CacheIdle
    /\ DetectIdle /\ MoreIdle

SpecLabels == InitLabels /\ [][LabelsNext]_vars

InitGlobals == GlobalsInit /\ LabelsIdle /\ BatchIdle /\ CacheIdle
    /\ DetectIdle /\ MoreIdle

SpecGlobals == InitGlobals /\ [][GlobalsNext]_vars

InitBatch == BatchInit /\ LabelsIdle /\ GlobalsIdle /\ CacheIdle
    /\ DetectIdle /\ MoreIdle

SpecBatch == InitBatch /\ [][BatchNext]_vars

InitCache == CacheInit /\ LabelsIdle /\ GlobalsIdle /\ BatchIdle
    /\ DetectIdle /\ MoreIdle

SpecCache == InitCache /\ [][CacheNext]_vars

InitDetect ==
    DetectInit /\ LabelsIdle /\ GlobalsIdle /\ BatchIdle /\ CacheIdle
    /\ MoreIdle

SpecDetect == InitDetect /\ [][DetectNext]_vars

InitEngine == EngineInit /\ FirstIdle /\ ParseIdle /\ IdentIdle /\ LiftIdle /\ LateIdle

SpecEngine == InitEngine /\ [][EngineNext]_vars

InitParse == ParseInit /\ FirstIdle /\ EngineIdle /\ IdentIdle /\ LiftIdle /\ LateIdle

SpecParse == InitParse /\ [][ParseNext]_vars

InitIdent == IdentInit /\ FirstIdle /\ EngineIdle /\ ParseIdle /\ LiftIdle /\ LateIdle

SpecIdent == InitIdent /\ [][IdentNext]_vars

InitLift == LiftInit /\ FirstIdle /\ EngineIdle /\ ParseIdle /\ IdentIdle /\ LateIdle

SpecLift == InitLift /\ [][LiftNext]_vars

InitDescent == DescentInit /\ EarlierIdle /\ CrtIdle /\ RerunIdle

\* the loops of recursive_descent keep iterating: a call that has started
\* takes its next step
SpecDescent == InitDescent /\ [][DescentNext]_vars /\ WF_vars(DescentNext)

InitCrt == CrtInit /\ EarlierIdle /\ DescentIdle /\ RerunIdle

SpecCrt == InitCrt /\ [][CrtNext]_vars

InitRerun == RerunInit /\ EarlierIdle /\ DescentIdle /\ CrtIdle

SpecRerun == InitRerun /\ [][RerunNext]_vars

\* weak fairness of SweepStep, which is enabled exactly when engPc = "sweep":
\* the loop of a sweep that has started keeps iterating
SweepFairness == []<>(engPc # "sweep") \/ []<><<SweepStep>>_vars

SpecSweepFair == InitEngine /\ [][SweepNext]_vars /\ SweepFairness

C9_XRefEndpoints ==
    phase \in {"xrefs", "detected"} =>
        \A x \in AllXRefs(xrefs) :
            /\ x.from_addr \in DOMAIN instructions
            /\ get_section_at_va(image, x.to_addr) # <<>>

\* ---- C4 ----------------------------------------------------------------
\* The input files are those the run that stored the cache file had.
InputsAsStored ==
    /\ cache_file # <<>>
    /\ json_file # <<>>
    /\ cache_file[1].storedBy.xbe = xbe_file
    /\ cache_file[1].storedBy.json = json_file[1]

\* C4 as stated: a run reports a cache hit only if binary and analysis JSON
\* are as the storing run had them, all the flags of the run equal the flags
\* of the storing run, and the stored schema version is the current one.
C4_HitAllFlagsIdentical ==
    (lastRun # <<>> /\ lastRun[1].hit) =>
        /\ InputsAsStored
        /\ cache_file[1].version = CACHE_VERSION
        /\ cache_file[1].storedBy.flags = lastRun[1].flags

\* C4 amended: a run reports a cache hit only if binary and analysis JSON
\* are as the storing run had them, the text_only flag of the run equals
\* that of the storing run, and the stored schema version is the current one.
C4_HitTextOnlyIdentical ==
    (lastRun # <<>> /\ lastRun[1].hit) =>
        /\ InputsAsStored
        /\ cache_file[1].version = CACHE_VERSION
        /\ cache_file[1].storedBy.flags.text_only = lastRun[1].flags.text_only

\* A text_only run reporting a cache hit on a cache file that a forced run
\* stored.
C4_Witness ==
    /\ lastRun # <<>>
    /\ lastRun[1].hit
    /\ lastRun[1].flags.text_only
    /\ cache_file[1].storedBy.flags.force

\* ---- C5 ----------------------------------------------------------------
\* The functions of the batch whose translation fails, among the first n
FailedIn(n) ==
    {i \in 1..n : translate_function(xbe_data, func_list[i].addr,
                                     func_list[i].func_info) = None}

\* C5: a function whose translation fails does not stop the batch: it gets a
\* stub, it adds exactly one to the failure counter, the functions after it
\* are processed too, and at the end translated + failed is the batch size.
C5_FailureIsolation ==
    LET n == Len(translations)
    IN  /\ stats.failed = Cardinality(FailedIn(n))
        /\ stats.translated = n - Cardinality(FailedIn(n))
        /\ \A i \in 1..n :
              /\ translations[i].addr = func_list[i].addr
              /\ (i \in FailedIn(n)) <=> (translations[i].code.kind = "stub")
        /\ batchPc = "done" =>
              /\ n = Len(func_list)
              /\ stats.translated + stats.failed = Len(func_list)
              /\ stats.total = Len(func_list)

\* A finished batch in which a failed function is followed by a translated one.
C5_Witness ==
    /\ batchPc = "done"
    /\ \E i, j \in 1..Len(translations) :
          /\ i < j
          /\ translations[i].code.kind = "stub"
          /\ translations[j].code.kind = "code"

\* ---- C6 ----------------------------------------------------------------
\* C6: once the dispatch table is written, looking up any VA recorded in it
\* returns the function translated for that VA.
C6_DispatchLookup ==
    batchPc = "done" =>
        \A i \in 1..Len(dispatch) :
            recomp_lookup(dispatch, dispatch[i].xbox_va) = dispatch[i].func

\* ---- C7 ----------------------------------------------------------------
\* C7: after size inference every global's inferred_size is one of 1, 2, 4, 8.
C7_SizePowerOfTwo ==
    gmPhase = "sized" =>
        \A a \in DOMAIN globals_db : globals_db[a].inferred_size \in {1, 2, 4, 8}

\* ---- C8 ----------------------------------------------------------------
\* C8: after size inference every global has address mod inferred_size = 0,
\* and an address divisible by 4 but not by 8 has a size of at most 4.
C8_SizeAligned ==
    gmPhase = "sized" =>
        \A a \in DOMAIN globals_db :
            /\ a % globals_db[a].inferred_size = 0
            /\ (a % 4 = 0 /\ a % 8 # 0 => globals_db[a].inferred_size <= 4)

\* ---- C3 ----------------------------------------------------------------
\* C3: after any sequence of add operations every label's address is unique
\* (the label stored under key a has address a) and reverse lookup by name
\* returns the same label: get_by_name(L.name) = L for every held label L.
C3_ReverseLookup ==
    \A a \in DOMAIN labels :
        /\ labels[a].address = a
        /\ LabelManager_get_by_name(Table, labels[a].name) = <<labels[a]>>

\* ---- C10 ---------------------------------------------------------------
\* C10: when add(label) meets an existing label at the same address, the
\* table afterwards holds the one with the higher confidence; at equal
\* confidence an explicitly named label wins over an auto-generated sub_ one.
C10_AddConflict ==
    \A i \in 1..Len(lastAdd) :
        LET l == lastAdd[i].label
            a == l.address
        IN  \A j \in 1..Len(lastAdd[i].existing) :
              LET e == lastAdd[i].existing[j]
              IN  /\ a \in DOMAIN labels
                  /\ (l.confidence > e.confidence => labels[a] = l)
                  /\ (l.confidence < e.confidence => labels[a] = e)
                  /\ (l.confidence = e.confidence
                        /\ ~StartsWithSub(l.name) /\ StartsWithSub(e.name)
                        => labels[a] = l)
                  /\ (l.confidence = e.confidence
                        /\ StartsWithSub(l.name) /\ ~StartsWithSub(e.name)
                        => labels[a] = e)

\* A conflicting add at equal confidence where the named label displaced the
\* auto-generated one.
C10_Witness ==
    /\ Len(lastAdd) = 1
    /\ Len(lastAdd[1].existing) = 1
    /\ lastAdd[1].label.confidence = lastAdd[1].existing[1].confidence
    /\ ~StartsWithSub(lastAdd[1].label.name)
    /\ StartsWithSub(lastAdd[1].existing[1].name)
    /\ labels[lastAdd[1].label.address] = lastAdd[1].label

\* ---- C12 ---------------------------------------------------------------
\* C12: once labels, instructions and cross-references have been produced
\* (phase "xrefs"), the function detection stage leaves the label table, the
\* instruction map and the cross-reference index exactly as they were.
C12_StagesFrame ==
    [][phase = "xrefs" =>
          /\ labels' = labels
          /\ names' = names
          /\ instructions' = instructions
          /\ xrefs' = xrefs]_vars

\* ---- C15 ---------------------------------------------------------------
\* nothing decodes at the cursor
DecodeFailsAtCursor ==
    CsDecode(SweepData, swOffset + 1,
             engImage.sections[swSec].virtual_addr + swOffset) = <<>>

\* C15: every linear sweep that has started returns; when nothing decodes at
\* the cursor the cursor moves on by exactly one byte and no instruction is
\* stored; and every instruction a sweep has decoded is in the instruction
\* map under its address.
C15_SweepTerminates ==
    /\ (engPc = "sweep") ~> (engPc = "idle")
    /\ [][(engPc = "sweep" /\ DecodeFailsAtCursor) =>
              (swOffset' = swOffset + 1 /\ engInsns' = engInsns)]_vars
    /\ [](\A i \in swDecoded : get_instruction(engInsns, i.address) = <<i>>)

\* A sweep has returned after skipping a byte that did not decode and
\* decoding the instruction that follows it.
C15_Witness ==
    /\ engPc = "idle"
    /\ nSweeps > 0
    /\ swSkips > 0
    /\ swOffset = Len(SweepData)
    /\ \E i \in swDecoded : i.address = engImage.sections[swSec].virtual_addr + 1

\* ---- C16 ---------------------------------------------------------------
\* the decoded instructions with start <= address < end, by address
InstructionsInRange(start, end) ==
    LET addrs == SortedSeq({a \in DOMAIN engInsns : start <= a /\ a < end})
    IN  [k \in 1..Len(addrs) |-> engInsns[addrs[k]]]

\* C16: the get_instructions_in_range call that just returned gave exactly
\* the decoded instructions with start <= address < end, in increasing
\* address order.
C16_RangeQueryExact ==
    lastQuery # <<>> =>
        lastQuery[1].result = InstructionsInRange(lastQuery[1].start, lastQuery[1].end)

\* A query made after a sweep inserted instructions following an earlier
\* query returned instructions of both sections.
C16_Witness ==
    /\ lastQuery # <<>>
    /\ lastQuery[1].regrown
    /\ \E i, j \in 1..Len(lastQuery[1].result) :
          /\ lastQuery[1].result[i].address < SECOND_VA
          /\ lastQuery[1].result[j].address >= SECOND_VA

\* ---- C11 ---------------------------------------------------------------
\* the file offsets the container declares: section table, certificate,
\* library table, TLS directory, thunk table and each section's raw data
DeclaredOffsets ==
    LET h == xpHeader[1]
    IN  {h.section_headers_addr - h.base_address,
         h.certificate_addr - h.base_address,
         ThunkFileOff(h, xpSections)}
        \cup (IF h.num_library_versions > 0
              THEN {h.library_versions_addr - h.base_address} ELSE {})
        \cup (IF h.tls_addr # 0
              THEN {va_to_file(h.tls_addr, h.base_address, xpSections)} ELSE {})
        \cup {xpSections[i].raw_addr : i \in 1..Len(xpSections)}

\* C11: when parse() has returned, and when load_image has returned an image,
\* no offset the container declares lies past the end of the buffer.
C11_NoOffsetPastEnd ==
    xpPc \in {"returned", "loaded"} =>
        \A off \in DeclaredOffsets : off <= xpData.buflen

\* ---- C17 ---------------------------------------------------------------
\* C17: the decoded entry point is the entry field XORed with the retail key
\* when that lies in [base, base + image_size), also when the debug decoding
\* lies in range too; otherwise it is the field XORed with the debug key when
\* that lies in range; and the thunk address is decoded with the thunk key
\* of the kind chosen for the entry point.
C17_EntryDecoding ==
    xpHeader # <<>> =>
        LET h == xpHeader[1]
            retail == Xor32(h.entry_point_raw, ENTRY_RETAIL_XOR)
            debug == Xor32(h.entry_point_raw, ENTRY_DEBUG_XOR)
        IN  /\ InImage(retail, h.base_address, h.image_size) =>
                  /\ h.entry_point = retail
                  /\ h.kernel_thunk_addr = Xor32(h.kernel_thunk_addr_raw, THUNK_RETAIL_XOR)
            /\ (~InImage(retail, h.base_address, h.image_size)
                    /\ InImage(debug, h.base_address, h.image_size)) =>
                  /\ h.entry_point = debug
                  /\ h.kernel_thunk_addr = Xor32(h.kernel_thunk_addr_raw, THUNK_DEBUG_XOR)

\* A header was parsed whose entry field decodes into the image with both
\* keys, and the retail decoding was kept.
C17_Witness ==
    /\ xpHeader # <<>>
    /\ InImage(Xor32(xpHeader[1].entry_point_raw, ENTRY_RETAIL_XOR),
               xpHeader[1].base_address, xpHeader[1].image_size)
    /\ InImage(Xor32(xpHeader[1].entry_point_raw, ENTRY_DEBUG_XOR),
               xpHeader[1].base_address, xpHeader[1].image_size)
    /\ xpHeader[1].entry_point = U32(CODE_VA)
    /\ ~xpHeader[1].is_debug

\* ---- C13 ---------------------------------------------------------------
\* C13: a function that matches a runtime (CRT) signature and also has a
\* library (RenderWare) classification is emitted with the runtime-signature
\* record.
C13_RuntimeRecordWins ==
    fiPc = "written" =>
        \A a \in fiMatched \cap DOMAIN rw_results :
            /\ enriched[a].category = "crt"
            /\ enriched[a].method = "crt_signature"

\* ---- C14 ---------------------------------------------------------------
\* C14: from the start of propagation until the results are written, no
\* function that has a library (RenderWare) classification carries a runtime
\* (CRT) assignment, and no function with a runtime assignment is given a
\* propagated label.
C14_OverlapRemoved ==
    fiPc \in {"merged", "forward", "backward", "region", "flood", "after",
              "proximity", "consumers", "xdk", "strings", "propagated",
              "written"} =>
        /\ DOMAIN crt_results \cap DOMAIN rw_results = {}
        /\ DOMAIN crt_results \cap DOMAIN propagated = {}
        /\ fiPc = "written" =>
              \A a \in DOMAIN rw_results : enriched[a].category # "crt"

C14_Witness ==
    /\ fiPc = "written"
    /\ fiMatched \cap DOMAIN rw_results # {}
    /\ crt_results # EmptyDict

\* ---- C19 ---------------------------------------------------------------
\* C19: a forward pass labels every unlabeled function that has at least two
\* callers carrying one library label, these being at least 2/3 of its
\* callers, with that label.
C19_ForwardMajority ==
    [][fiPc = "forward" =>
          \A a \in DOMAIN fiCalls : \A l \in RWCategories :
              LET callers == CallersOf(fiCalls, a)
                  same == {c \in callers : c \in DOMAIN fiLabels /\ fiLabels[c] = l}
              IN (/\ a \notin DOMAIN fiLabels
                  /\ Cardinality(same) >= 2
                  /\ 3 * Cardinality(same) >= 2 * Cardinality(callers))
                 => (a \in DOMAIN fiLabels' /\ fiLabels'[a] = l)]_vars

\* ---- C20 ---------------------------------------------------------------
\* C20: when the region flood returns after working on a region, no unlabeled
\* function of the region has a caller or callee that carries a library label.
C20_FloodConverged ==
    (fiPc = "after" /\ fiRegion # <<>>) =>
        \A i \in 1..Len(fiRegion[1]) :
            LET a == fiRegion[1][i]
            IN a \notin DOMAIN fiLabels =>
                  RWIn(CallersOf(fiCalls, a) \cup fiCalls[a], fiLabels) = {}

\* ---- C18 ---------------------------------------------------------------
\* C18: the entry block is lifted with an empty flag state, and so is every
\* block whose predecessor in address order ends in a return or an
\* unconditional jump.
C18_FallThroughOnly ==
    \A b \in 1..Len(lfIn) :
        /\ b = 1 => lfIn[b] = <<>>
        /\ (b > 1 /\ LET prev == lfBlocks[b - 1].instructions
                     IN IsRet(prev[Len(prev)]) \/ IsJump(prev[Len(prev)]))
           => lfIn[b] = <<>>

\* ---- C21 ---------------------------------------------------------------
\* the successors of a decoded instruction under the rules of the walk:
\* the fall-through address unless it is a return or an unconditional jump,
\* and the direct target of a call, a conditional or an unconditional jump
FlowSuccessors(insn) ==
    (IF insn.is_ret \/ insn.is_jump THEN {} ELSE {end_address(insn)})
    \cup (IF insn.is_call THEN {insn.call_target} ELSE {})
    \cup (IF insn.is_cond_jump \/ insn.is_jump THEN {insn.jump_target} ELSE {})

\* decoded and inside a section
RdValid(S) == {a \in S : a \in DOMAIN rdInsns /\ in_bounds(rdBounds, a)}

RECURSIVE FlowClosure(_)
FlowClosure(S) ==
    LET more == S \cup RdValid(UNION {FlowSuccessors(rdInsns[a]) : a \in S})
    IN  IF more = S THEN S ELSE FlowClosure(more)

\* the decoded, in-bounds addresses reachable from the seeds
ReachableFromSeeds == FlowClosure(RdValid({rdSeeds[i] : i \in 1..Len(rdSeeds)}))

\* C21: recursive_descent terminates for every seed list and instruction
\* map, and what it returns is exactly the set of decoded, in-bounds
\* instruction addresses reachable from the seeds by fall-through (after
\* everything but returns and unconditional jumps), direct call targets,
\* conditional-jump targets and unconditional-jump targets.
C21_DescentExact ==
    /\ <>(rdPc = "done")
    /\ [](rdPc = "done" => rdReach = ReachableFromSeeds)

\* a finished descent that followed a call, continued past it, and followed
\* a jump
C21_Witness ==
    /\ rdPc = "done"
    /\ \E a \in rdReach :
          /\ rdInsns[a].is_call
          /\ rdInsns[a].call_target \in rdReach \ {a, end_address(rdInsns[a])}
          /\ end_address(rdInsns[a]) \in rdReach
    /\ \E a \in rdReach :
          /\ rdInsns[a].is_jump \/ rdInsns[a].is_cond_jump
          /\ rdInsns[a].jump_target \in rdReach

\* ---- C22 ---------------------------------------------------------------
\* function i of the list is a candidate for signature s: its bytes were
\* read and the signature applies to it
CrtCandidate(i, s) ==
    Len(ciFuncs[i].bytes) >= 2 /\ SigMatches(ciFuncs[i], CRT_SIGNATURES[s])

\* C22: when exactly two functions match the same signature name and their
\* (known) sizes differ, the returned results hold an assignment for the
\* smaller one and none for the larger one, in whichever order the two were
\* examined.
C22_SmallerKept ==
    ciPc = "done" =>
        \A s \in 1..Len(CRT_SIGNATURES) : \A i, j \in 1..Len(ciFuncs) :
            ( /\ {k \in 1..Len(ciFuncs) : CrtCandidate(k, s)} = {i, j}
              /\ 0 < ciFuncs[i].size
              /\ ciFuncs[i].size < ciFuncs[j].size )
            => ( /\ ciFuncs[i].start \in DOMAIN ciResults
                 /\ ciFuncs[j].start \notin DOMAIN ciResults )

\* ---- C30 ---------------------------------------------------------------
\* C30: throughout signature matching, every name recorded in matched_names
\* points at an address that has an entry in results, and that entry holds
\* the same name; so resolving a collision never raises KeyError and never
\* deletes an entry that holds another name.
C30_NamesConsistent ==
    /\ ciPc # "raised"
    /\ \A n \in DOMAIN matched_names :
          /\ matched_names[n] \in DOMAIN ciResults
          /\ ciResults[matched_names[n]].name = n

\* the function examined first matched a signature, so it was recorded, and
\* it has lost its entry to a later function in a name collision
C30_Witness ==
    /\ ciPc = "done"
    /\ \E s \in 1..Len(CRT_SIGNATURES) : CrtCandidate(1, s)
    /\ ciFuncs[1].start \notin DOMAIN ciResults
    /\ \E n \in DOMAIN matched_names : matched_names[n] > 1

\* ---- C23 ---------------------------------------------------------------
\* the library region known when propagation starts: the span of the
\* functions identified as library code (rw_identifier.py:146-149)
InKnownRegion(a) ==
    /\ rw_results # EmptyDict
    /\ SetMin(DOMAIN rw_results) <= a
    /\ a <= SetMax(DOMAIN rw_results)

\* C23: every function that proximity propagation has labelled outside the
\* library region has an immediate address neighbour on each side, both
\* within PROXIMITY_GAP (0x1000) bytes and both carrying the same library
\* label, and that label is the one it has inherited.
C23_ProximityBothSides ==
    \A i \in 1..Len(FiSortedAddrs) :
        LET a == FiSortedAddrs[i]
        IN  ( /\ a \in DOMAIN propagated
              /\ propagated[a].method = "cluster_proximity"
              /\ ~InKnownRegion(a) )
            => ( /\ 1 < i
                 /\ i < Len(FiSortedAddrs)
                 /\ FiSortedAddrs[i - 1] \in DOMAIN fiLabels
                 /\ FiSortedAddrs[i + 1] \in DOMAIN fiLabels
                 /\ IsRW(fiLabels[FiSortedAddrs[i - 1]])
                 /\ fiLabels[FiSortedAddrs[i - 1]] = fiLabels[FiSortedAddrs[i + 1]]
                 /\ a - FiSortedAddrs[i - 1] <= PROXIMITY_GAP
                 /\ FiSortedAddrs[i + 1] - a <= PROXIMITY_GAP
                 /\ propagated[a].category = fiLabels[FiSortedAddrs[i - 1]] )

\* ---- C28 ---------------------------------------------------------------
\* the positions of run() at which propagate_labels is under way
Propagating ==
    fiPc \in {"forward", "backward", "region", "flood", "after", "proximity",
              "consumers", "xdk", "strings"}

\* C28: label propagation is monotone. Across every round and pass, a
\* function that has a label keeps that label; one that entered propagation
\* with a library or runtime classification gets no propagated record; and a
\* function that has a propagated record keeps exactly that record.
C28_PropagationMonotone ==
    [][Propagating =>
        /\ \A a \in DOMAIN fiLabels :
              a \in DOMAIN fiLabels' /\ fiLabels'[a] = fiLabels[a]
        /\ \A a \in DOMAIN rw_results \cup DOMAIN crt_results :
              a \notin DOMAIN propagated'
        /\ \A a \in DOMAIN propagated :
              a \in DOMAIN propagated' /\ propagated'[a] = propagated[a]]_vars

\* propagation has ended; the forward pass has labelled a function, and the
\* later passes have gone over a runtime function that lies between library
\* functions
C28_Witness ==
    /\ fiPc = "propagated"
    /\ \E a \in DOMAIN propagated : propagated[a].method = "cluster_forward"
    /\ \E c \in DOMAIN crt_results :
       \E lo, hi \in RWAddrs(FiSortedAddrs, fiLabels) : lo < c /\ c < hi


\* ---- C24 ---------------------------------------------------------------
\* the successors of block b as a set, and its last instruction
SuccSet(b) == {lfBlocks[b].successors[i] : i \in 1..Len(lfBlocks[b].successors)}

LastInsn(b) == lfBlocks[b].instructions[Len(lfBlocks[b].instructions)]

\* an address inside the function being translated
InFunction(a) == a # NoTarget /\ TEXT_VA_START <= a /\ a < lfEnd

\* C24 as stated: each basic block's successor set is empty when the block
\* ends in ret, {target} when it ends in an unconditional jump,
\* {fall-through, target} when it ends in a conditional jump, and
\* {next block's start} when it falls off its end.
C24_SuccessorsAsStated ==
    \A b \in 1..Len(lfBlocks) :
        LET last == LastInsn(b)
        IN IF IsRet(last) THEN SuccSet(b) = {}
           ELSE IF IsJump(last) THEN SuccSet(b) = {last.jump_target}
           ELSE IF IsCondJump(last)
           THEN SuccSet(b) = {EndAddress(last), last.jump_target}
           ELSE b < Len(lfBlocks) => SuccSet(b) = {lfBlocks[b + 1].start}

\* C24, amended: only addresses of the function are successors. The
\* successor set is empty after ret; after an unconditional jump it holds
\* the direct target if that lies inside the function; after a conditional
\* jump it holds the fall-through address if that lies before the function
\* end and the direct target if that lies inside the function; a block that
\* falls off its end has the next block's start as its only successor, and
\* none when it is the last block.
C24_SuccessorsInFunction ==
    \A b \in 1..Len(lfBlocks) :
        LET last == LastInsn(b)
        IN IF IsRet(last) THEN SuccSet(b) = {}
           ELSE IF IsJump(last)
           THEN SuccSet(b) = {a \in {last.jump_target} : InFunction(a)}
           ELSE IF IsCondJump(last)
           THEN SuccSet(b) = {a \in {EndAddress(last)} : a < lfEnd}
                             \cup {a \in {last.jump_target} : InFunction(a)}
           ELSE SuccSet(b) = IF b < Len(lfBlocks) THEN {lfBlocks[b + 1].start}
                             ELSE {}

\* blocks were built with a conditional jump that has both successors, a
\* block that falls off its end into the next one, and a jump out of the
\* function that has none
C24_Witness ==
    /\ lfPc = "blocks"
    /\ \E b \in 1..Len(lfBlocks) :
          IsCondJump(LastInsn(b)) /\ Cardinality(SuccSet(b)) = 2
    /\ \E b \in 1..Len(lfBlocks) :
          /\ ~IsRet(LastInsn(b)) /\ ~IsJump(LastInsn(b)) /\ ~IsCondJump(LastInsn(b))
          /\ b < Len(lfBlocks) /\ SuccSet(b) = {lfBlocks[b + 1].start}
    /\ \E b \in 1..Len(lfBlocks) :
          /\ IsJump(LastInsn(b)) /\ LastInsn(b).jump_target = OutsideVA
          /\ SuccSet(b) = {}

\* ---- C25 ---------------------------------------------------------------
\* the instructions lifted so far: those of the blocks already lifted
LiftedInsns ==
    UNION {{lfBlocks[b].instructions[i] : i \in 1..Len(lfBlocks[b].instructions)} :
             b \in 1..(lfIdx - 1)}

\* a flag destroyer, or a mnemonic that is neither a flag setter, nor a flag
\* preserver, nor a jump
ClearsFlags(insn) ==
    \/ insn.mnemonic \in {"mul", "div", "idiv", "cpuid"}
    \/ insn.mnemonic \notin FLAG_SETTERS \cup EFLAGS_PRESERVE \cup COND_JUMPS
                            \cup {"jmp"}

\* C25: an unknown mnemonic and the flag destroyers mul, div, idiv, cpuid
\* clear the flag state: no conditional is lowered from a flag setter with
\* such an instruction lifted between the two, and the flag state kept
\* after a block never comes from before such an instruction.
C25_ClearedByUnknown ==
    /\ \A i \in 1..Len(lfStmts) :
          lfStmts[i].cond # <<>> =>
              ~\E insn \in LiftedInsns :
                   /\ ClearsFlags(insn)
                   /\ lfStmts[i].from < insn.address
                   /\ insn.address < lfStmts[i].at
    /\ lfFlag # <<>> =>
          ~\E insn \in LiftedInsns :
               ClearsFlags(insn) /\ lfFlag[1].at < insn.address

\* a compare, then an unknown mnemonic, then a conditional jump that was
\* lifted with the opaque _flags
C25_Witness ==
    /\ lfPc = "done"
    /\ \E i, j, k \in 1..Len(lfStmts) :
          /\ i < j /\ j < k
          /\ lfStmts[i].kind = "cmp"
          /\ lfStmts[j].kind = "stc"
          /\ lfStmts[k].kind \in {"flags_goto", "flags_call"}
          /\ lfStmts[k].cond = <<>>

\* ---- C26 ---------------------------------------------------------------
\* C26: in the text returned, every goto names a label defined in the same
\* function, and a goto that was rewritten to (void)0 named a label that is
\* not defined.
C26_GotosDefined ==
    lfPc = "done" =>
        \A i \in 1..Len(lfStmts) :
            LET defined == \E j \in 1..Len(lfStmts) :
                               /\ lfStmts[j].kind = "label"
                               /\ lfStmts[j].target = lfStmts[i].target
            IN /\ lfStmts[i].kind \in GotoKinds => defined
               /\ lfStmts[i].kind = "void" => ~defined

\* a lowered conditional jump into the undecoded tail of the function was
\* rewritten
C26_Witness ==
    /\ lfPc = "done"
    /\ \E i \in 1..Len(lfStmts) :
          /\ lfStmts[i].kind = "void"
          /\ lfStmts[i].cond # <<>>
          /\ InFunction(lfStmts[i].target)

\* ---- C29 ---------------------------------------------------------------
\* the registers an instruction writes
Writes(insn) ==
    IF insn.mnemonic = "mov" THEN {insn.operands[1]}
    ELSE IF insn.mnemonic = "mul" THEN {"eax", "edx"}
    ELSE {}

\* C29: whenever a conditional is lowered from the tracked flag state, no
\* instruction lifted between the flag setter and the conditional has
\* written an operand named in the condition.
C29_OperandsUnchanged ==
    \A i \in 1..Len(lfStmts) :
        lfStmts[i].cond # <<>> =>
            ~\E insn \in LiftedInsns :
                 /\ lfStmts[i].from < insn.address
                 /\ insn.address < lfStmts[i].at
                 /\ Writes(insn) \cap {lfStmts[i].cond[1].lhs,
                                       lfStmts[i].cond[1].rhs} # {}


\* ---- C27 ---------------------------------------------------------------
\* C27: whenever a run reports a cache hit, every required output file on
\* disk is the file a completed analysis of the current input binary under
\* the current text_only flag writes.
C27_HitOutputsCurrent ==
    (rrLast # <<>> /\ rrLast[1].hit) =>
        \A f \in required_files :
            rrOutputs[f] = WrittenFile(rrXbe, rrLast[1].flags.text_only, TRUE)

====
